---------------------------- MODULE Spec2Model ----------------------------
(***************************************************************************)
(* Model of the jobclaw ingestion pipeline                                  *)
(* (scripts/ingestion/*.py): the normalized job record and its dedup key,  *)
(* the role, geography and recency filters, the dedup engine, the job      *)
(* database file, and one ingestion cycle (run_cycle) with its retrying    *)
(* fetch tasks; the markdown table parser of the GitHub repositories, the  *)
(* Workday pagination, two cycles on one database, the storage and memory  *)
(* managers (scripts/utils/*.py) and the Discord bot's posting handlers    *)
(* (scripts/discord_bot.py).                                               *)
(*                                                                         *)
(* Python strings that the code inspects character by character are        *)
(* tuples of one-character strings.                                        *)
(***************************************************************************)
EXTENDS Integers, Sequences, FiniteSets, TLC

(***************************************************************************)
(* Strings: str.encode, str.lower, str.strip, substring search.            *)
(***************************************************************************)

\* str.encode(): the byte of each (ASCII) character.
ORD ==
  ("a" :> 97) @@ ("b" :> 98) @@ ("c" :> 99) @@ ("d" :> 100) @@ ("e" :> 101) @@ ("f" :> 102) @@
  ("g" :> 103) @@ ("h" :> 104) @@ ("i" :> 105) @@ ("j" :> 106) @@ ("k" :> 107) @@ ("l" :> 108) @@
  ("m" :> 109) @@ ("n" :> 110) @@ ("o" :> 111) @@ ("p" :> 112) @@ ("q" :> 113) @@ ("r" :> 114) @@
  ("s" :> 115) @@ ("t" :> 116) @@ ("u" :> 117) @@ ("v" :> 118) @@ ("w" :> 119) @@ ("x" :> 120) @@
  ("y" :> 121) @@ ("z" :> 122) @@ ("A" :> 65) @@ ("B" :> 66) @@ ("C" :> 67) @@ ("D" :> 68) @@
  ("E" :> 69) @@ ("F" :> 70) @@ ("G" :> 71) @@ ("H" :> 72) @@ ("I" :> 73) @@ ("J" :> 74) @@
  ("K" :> 75) @@ ("L" :> 76) @@ ("M" :> 77) @@ ("N" :> 78) @@ ("O" :> 79) @@ ("P" :> 80) @@
  ("Q" :> 81) @@ ("R" :> 82) @@ ("S" :> 83) @@ ("T" :> 84) @@ ("U" :> 85) @@ ("V" :> 86) @@
  ("W" :> 87) @@ ("X" :> 88) @@ ("Y" :> 89) @@ ("Z" :> 90) @@ ("0" :> 48) @@ ("1" :> 49) @@
  ("2" :> 50) @@ ("3" :> 51) @@ ("4" :> 52) @@ ("5" :> 53) @@ ("6" :> 54) @@ ("7" :> 55) @@
  ("8" :> 56) @@ ("9" :> 57) @@ (" " :> 32) @@ ("\t" :> 9) @@ ("|" :> 124) @@ ("/" :> 47) @@
  ("," :> 44) @@ ("+" :> 43) @@ ("-" :> 45) @@ ("." :> 46) @@ (":" :> 58) @@
  ("~" :> 126) @@ ("[" :> 91) @@ ("]" :> 93) @@ ("(" :> 40) @@ (")" :> 41)

\* str.lower() on one character.
LowerChar ==
  ("A" :> "a") @@ ("B" :> "b") @@ ("C" :> "c") @@ ("D" :> "d") @@ ("E" :> "e") @@ ("F" :> "f") @@
  ("G" :> "g") @@ ("H" :> "h") @@ ("I" :> "i") @@ ("J" :> "j") @@ ("K" :> "k") @@ ("L" :> "l") @@
  ("M" :> "m") @@ ("N" :> "n") @@ ("O" :> "o") @@ ("P" :> "p") @@ ("Q" :> "q") @@ ("R" :> "r") @@
  ("S" :> "s") @@ ("T" :> "t") @@ ("U" :> "u") @@ ("V" :> "v") @@ ("W" :> "w") @@ ("X" :> "x") @@
  ("Y" :> "y") @@ ("Z" :> "z") @@
  [c \in DOMAIN ORD |-> c]

\* str.lower()
lower(s) == [i \in 1..Len(s) |-> IF s[i] \in DOMAIN LowerChar THEN LowerChar[s[i]] ELSE s[i]]

\* the characters str.strip() removes
WHITESPACE == {" ", "\t"}

RECURSIVE lstrip(_)
lstrip(s) == IF s # <<>> /\ Head(s) \in WHITESPACE THEN lstrip(Tail(s)) ELSE s

RECURSIVE rstrip(_)
rstrip(s) ==
  IF s # <<>> /\ s[Len(s)] \in WHITESPACE THEN rstrip(SubSeq(s, 1, Len(s) - 1)) ELSE s

\* str.strip()
strip(s) == rstrip(lstrip(s))

\* `sub in s` for strings
Contains(s, sub) ==
  \E i \in 1..(Len(s) - Len(sub) + 1) : \A j \in 1..Len(sub) : s[i + j - 1] = sub[j]


(***************************************************************************)
(* NormalizedJob (ats_adapters.py) and its dedup key.                      *)
(***************************************************************************)

\* the digest is kept narrower than the 16 hex digits of the code so that
\* its arithmetic stays inside TLC's integers
DIGEST_MOD == 1000003

RECURSIVE sha256_fold(_, _)
sha256_fold(h, bytes) ==
  IF bytes = <<>> THEN h
  ELSE sha256_fold((h * 257 + Head(bytes)) % DIGEST_MOD, Tail(bytes))

\* hashlib.sha256(raw.encode()).hexdigest()[:16]
sha256_16(raw) == sha256_fold(7, [i \in 1..Len(raw) |-> ORD[raw[i]]])

\* f"{self.title}|{self.company}|{self.location}".lower().strip()
dedup_raw(job) == strip(lower(job.title \o <<"|">> \o job.company \o <<"|">> \o job.location))

\* NormalizedJob.dedup_key
dedup_key(job) == sha256_16(dedup_raw(job))

\* NormalizedJob(...) as the adapters construct it: first_seen and
\* keywords_matched take their defaults
NormalizedJob(title, company, location, url, date_posted, source_ats, job_id) ==
  [title |-> title, company |-> company, location |-> location, url |-> url,
   date_posted |-> date_posted, source_ats |-> source_ats, job_id |-> job_id,
   first_seen |-> "", keywords_matched |-> {}]

(***************************************************************************)
(* Role filter (role_filter.py).                                           *)
(***************************************************************************)

ROLE_KEYWORDS ==
  <<
    <<<<"m","a","c","h","i","n","e"," ","l","e","a","r","n","i","n","g"," ","e","n","g","i","n","e","e","r">>, "AI/ML">>,  \* machine learning engineer
    <<<<"m","l"," ","e","n","g","i","n","e","e","r">>, "AI/ML">>,  \* ml engineer
    <<<<"a","i"," ","e","n","g","i","n","e","e","r">>, "AI/ML">>,  \* ai engineer
    <<<<"g","e","n","e","r","a","t","i","v","e"," ","a","i"," ","e","n","g","i","n","e","e","r">>, "AI/ML">>,  \* generative ai engineer
    <<<<"a","p","p","l","i","e","d"," ","m","a","c","h","i","n","e"," ","l","e","a","r","n","i","n","g"," ","e","n","g","i","n","e","e","r">>, "AI/ML">>,  \* applied machine learning engineer
    <<<<"m","a","c","h","i","n","e"," ","l","e","a","r","n","i","n","g"," ","s","c","i","e","n","t","i","s","t">>, "AI/ML">>,  \* machine learning scientist
    <<<<"m","l"," ","s","c","i","e","n","t","i","s","t">>, "AI/ML">>,  \* ml scientist
    <<<<"r","e","s","e","a","r","c","h"," ","s","c","i","e","n","t","i","s","t">>, "AI/ML">>,  \* research scientist
    <<<<"a","i"," ","r","e","s","e","a","r","c","h"," ","a","s","s","i","s","t","a","n","t">>, "AI/ML">>,  \* ai research assistant
    <<<<"l","l","m"," ","e","n","g","i","n","e","e","r">>, "AI/ML">>,  \* llm engineer
    <<<<"n","l","p"," ","e","n","g","i","n","e","e","r">>, "AI/ML">>,  \* nlp engineer
    <<<<"c","o","m","p","u","t","e","r"," ","v","i","s","i","o","n"," ","e","n","g","i","n","e","e","r">>, "AI/ML">>,  \* computer vision engineer
    <<<<"d","e","e","p"," ","l","e","a","r","n","i","n","g"," ","e","n","g","i","n","e","e","r">>, "AI/ML">>,  \* deep learning engineer
    <<<<"d","e","e","p"," ","l","e","a","r","n","i","n","g">>, "AI/ML">>,  \* deep learning
    <<<<"m","l"," ","c","o","m","p","i","l","e","r"," ","e","n","g","i","n","e","e","r">>, "AI/ML">>,  \* ml compiler engineer
    <<<<"m","l","o","p","s"," ","e","n","g","i","n","e","e","r">>, "AI/ML">>,  \* mlops engineer
    <<<<"m","l"," ","o","p","s">>, "AI/ML">>,  \* ml ops
    <<<<"a","i","/","m","l"," ","p","l","a","t","f","o","r","m"," ","e","n","g","i","n","e","e","r">>, "AI/ML">>,  \* ai/ml platform engineer
    <<<<"a","p","p","l","i","e","d"," ","s","c","i","e","n","t","i","s","t">>, "AI/ML">>,  \* applied scientist
    <<<<"a","i"," ","s","c","i","e","n","t","i","s","t">>, "AI/ML">>,  \* ai scientist
    <<<<"m","a","c","h","i","n","e"," ","l","e","a","r","n","i","n","g">>, "AI/ML">>,  \* machine learning
    <<<<"p","r","o","m","p","t"," ","e","n","g","i","n","e","e","r">>, "AI/ML">>,  \* prompt engineer
    <<<<"r","a","g"," ","e","n","g","i","n","e","e","r">>, "AI/ML">>,  \* rag engineer
    <<<<"a","i"," ","a","r","c","h","i","t","e","c","t">>, "AI/ML">>,  \* ai architect
    <<<<"m","l"," ","s","y","s","t","e","m","s"," ","e","n","g","i","n","e","e","r">>, "AI/ML">>,  \* ml systems engineer
    <<<<"a","i"," ","r","e","s","e","a","r","c","h"," ","e","n","g","i","n","e","e","r">>, "AI/ML">>,  \* ai research engineer
    <<<<"f","o","u","n","d","a","t","i","o","n"," ","m","o","d","e","l"," ","e","n","g","i","n","e","e","r">>, "AI/ML">>,  \* foundation model engineer
    <<<<"a","i"," ","p","e","r","c","e","p","t","i","o","n"," ","e","n","g","i","n","e","e","r">>, "AI/ML">>,  \* ai perception engineer
    <<<<"r","o","b","o","t","i","c","s"," ","m","l"," ","e","n","g","i","n","e","e","r">>, "AI/ML">>,  \* robotics ml engineer
    <<<<"r","o","b","o","t","i","c","s"," ","e","n","g","i","n","e","e","r">>, "AI/ML">>,  \* robotics engineer
    <<<<"l","l","m","o","p","s"," ","e","n","g","i","n","e","e","r">>, "AI/ML">>,  \* llmops engineer
    <<<<"v","e","c","t","o","r"," ","d","a","t","a","b","a","s","e"," ","e","n","g","i","n","e","e","r">>, "AI/ML">>,  \* vector database engineer
    <<<<"e","m","b","e","d","d","i","n","g","s"," ","e","n","g","i","n","e","e","r">>, "AI/ML">>,  \* embeddings engineer
    <<<<"a","i"," ","e","t","h","i","c","s"," ","r","e","s","e","a","r","c","h","e","r">>, "AI/ML">>,  \* ai ethics researcher
    <<<<"a","i"," ","a","u","t","o","m","a","t","i","o","n"," ","e","n","g","i","n","e","e","r">>, "AI/ML">>,  \* ai automation engineer
    <<<<"d","a","t","a"," ","s","c","i","e","n","t","i","s","t">>, "Data Science">>,  \* data scientist
    <<<<"a","s","s","o","c","i","a","t","e"," ","d","a","t","a"," ","s","c","i","e","n","t","i","s","t">>, "Data Science">>,  \* associate data scientist
    <<<<"j","u","n","i","o","r"," ","d","a","t","a"," ","s","c","i","e","n","t","i","s","t">>, "Data Science">>,  \* junior data scientist
    <<<<"q","u","a","n","t","i","t","a","t","i","v","e"," ","d","a","t","a"," ","s","c","i","e","n","t","i","s","t">>, "Data Science">>,  \* quantitative data scientist
    <<<<"r","e","s","e","a","r","c","h"," ","d","a","t","a"," ","s","c","i","e","n","t","i","s","t">>, "Data Science">>,  \* research data scientist
    <<<<"a","p","p","l","i","e","d"," ","d","a","t","a"," ","s","c","i","e","n","t","i","s","t">>, "Data Science">>,  \* applied data scientist
    <<<<"d","a","t","a"," ","s","c","i","e","n","c","e"," ","a","n","a","l","y","s","t">>, "Data Science">>,  \* data science analyst
    <<<<"b","u","s","i","n","e","s","s"," ","i","n","t","e","l","l","i","g","e","n","c","e"," ","d","a","t","a"," ","s","c","i","e","n","t","i","s","t">>, "Data Science">>,  \* business intelligence data scientist
    <<<<"o","p","t","i","m","i","z","a","t","i","o","n"," ","d","a","t","a"," ","s","c","i","e","n","t","i","s","t">>, "Data Science">>,  \* optimization data scientist
    <<<<"c","l","i","n","i","c","a","l"," ","d","a","t","a"," ","s","c","i","e","n","t","i","s","t">>, "Data Science">>,  \* clinical data scientist
    <<<<"g","e","o","s","p","a","t","i","a","l"," ","d","a","t","a"," ","s","c","i","e","n","t","i","s","t">>, "Data Science">>,  \* geospatial data scientist
    <<<<"d","e","c","i","s","i","o","n"," ","s","c","i","e","n","t","i","s","t">>, "Data Science">>,  \* decision scientist
    <<<<"a","n","a","l","y","t","i","c","s"," ","s","c","i","e","n","t","i","s","t">>, "Data Science">>,  \* analytics scientist
    <<<<"p","r","e","d","i","c","t","i","v","e"," ","m","o","d","e","l","e","r">>, "Data Science">>,  \* predictive modeler
    <<<<"s","t","a","t","i","s","t","i","c","a","l"," ","a","n","a","l","y","s","t">>, "Data Science">>,  \* statistical analyst
    <<<<"d","a","t","a"," ","e","n","g","i","n","e","e","r">>, "Data Engineering">>,  \* data engineer
    <<<<"j","u","n","i","o","r"," ","d","a","t","a"," ","e","n","g","i","n","e","e","r">>, "Data Engineering">>,  \* junior data engineer
    <<<<"a","s","s","o","c","i","a","t","e"," ","d","a","t","a"," ","e","n","g","i","n","e","e","r">>, "Data Engineering">>,  \* associate data engineer
    <<<<"b","i","g"," ","d","a","t","a"," ","e","n","g","i","n","e","e","r">>, "Data Engineering">>,  \* big data engineer
    <<<<"c","l","o","u","d"," ","d","a","t","a"," ","e","n","g","i","n","e","e","r">>, "Data Engineering">>,  \* cloud data engineer
    <<<<"d","a","t","a"," ","p","l","a","t","f","o","r","m"," ","e","n","g","i","n","e","e","r">>, "Data Engineering">>,  \* data platform engineer
    <<<<"a","n","a","l","y","t","i","c","s"," ","e","n","g","i","n","e","e","r">>, "Data Engineering">>,  \* analytics engineer
    <<<<"e","t","l"," ","d","e","v","e","l","o","p","e","r">>, "Data Engineering">>,  \* etl developer
    <<<<"d","a","t","a"," ","p","i","p","e","l","i","n","e"," ","e","n","g","i","n","e","e","r">>, "Data Engineering">>,  \* data pipeline engineer
    <<<<"d","a","t","a"," ","w","a","r","e","h","o","u","s","e"," ","e","n","g","i","n","e","e","r">>, "Data Engineering">>,  \* data warehouse engineer
    <<<<"d","a","t","a","b","a","s","e"," ","e","n","g","i","n","e","e","r">>, "Data Engineering">>,  \* database engineer
    <<<<"d","a","t","a"," ","i","n","f","r","a","s","t","r","u","c","t","u","r","e"," ","e","n","g","i","n","e","e","r">>, "Data Engineering">>,  \* data infrastructure engineer
    <<<<"b","i","g"," ","d","a","t","a"," ","d","e","v","e","l","o","p","e","r">>, "Data Engineering">>,  \* big data developer
    <<<<"b","i"," ","d","e","v","e","l","o","p","e","r">>, "Data Engineering">>,  \* bi developer
    <<<<"d","a","t","a"," ","i","n","t","e","g","r","a","t","i","o","n"," ","e","n","g","i","n","e","e","r">>, "Data Engineering">>,  \* data integration engineer
    <<<<"h","a","d","o","o","p"," ","d","e","v","e","l","o","p","e","r">>, "Data Engineering">>,  \* hadoop developer
    <<<<"s","e","a","r","c","h"," ","e","n","g","i","n","e","e","r">>, "Data Engineering">>,  \* search engineer
    <<<<"s","o","l","u","t","i","o","n","s"," ","a","r","c","h","i","t","e","c","t">>, "Data Engineering">>,  \* solutions architect
    <<<<"d","a","t","a"," ","a","r","c","h","i","t","e","c","t">>, "Data Engineering">>,  \* data architect
    <<<<"d","a","t","a","b","a","s","e"," ","d","e","v","e","l","o","p","e","r">>, "Data Engineering">>,  \* database developer
    <<<<"a","z","u","r","e"," ","d","a","t","a"," ","e","n","g","i","n","e","e","r">>, "Data Engineering">>,  \* azure data engineer
    <<<<"a","w","s"," ","d","a","t","a"," ","e","n","g","i","n","e","e","r">>, "Data Engineering">>,  \* aws data engineer
    <<<<"g","c","p"," ","d","a","t","a"," ","e","n","g","i","n","e","e","r">>, "Data Engineering">>,  \* gcp data engineer
    <<<<"d","a","t","a"," ","a","n","a","l","y","s","t">>, "Data Analyst">>,  \* data analyst
    <<<<"j","u","n","i","o","r"," ","d","a","t","a"," ","a","n","a","l","y","s","t">>, "Data Analyst">>,  \* junior data analyst
    <<<<"a","s","s","o","c","i","a","t","e"," ","d","a","t","a"," ","a","n","a","l","y","s","t">>, "Data Analyst">>,  \* associate data analyst
    <<<<"e","n","t","r","y"," ","l","e","v","e","l"," ","d","a","t","a"," ","a","n","a","l","y","s","t">>, "Data Analyst">>,  \* entry level data analyst
    <<<<"b","u","s","i","n","e","s","s"," ","d","a","t","a"," ","a","n","a","l","y","s","t">>, "Data Analyst">>,  \* business data analyst
    <<<<"o","p","e","r","a","t","i","o","n","s"," ","d","a","t","a"," ","a","n","a","l","y","s","t">>, "Data Analyst">>,  \* operations data analyst
    <<<<"m","a","r","k","e","t","i","n","g"," ","d","a","t","a"," ","a","n","a","l","y","s","t">>, "Data Analyst">>,  \* marketing data analyst
    <<<<"b","u","s","i","n","e","s","s"," ","i","n","t","e","l","l","i","g","e","n","c","e"," ","a","n","a","l","y","s","t">>, "Data Analyst">>,  \* business intelligence analyst
    <<<<"a","n","a","l","y","t","i","c","s"," ","a","n","a","l","y","s","t">>, "Data Analyst">>,  \* analytics analyst
    <<<<"r","e","p","o","r","t","i","n","g"," ","a","n","a","l","y","s","t">>, "Data Analyst">>,  \* reporting analyst
    <<<<"d","a","t","a"," ","q","u","a","l","i","t","y"," ","a","n","a","l","y","s","t">>, "Data Analyst">>,  \* data quality analyst
    <<<<"p","r","o","d","u","c","t"," ","d","a","t","a"," ","a","n","a","l","y","s","t">>, "Data Analyst">>,  \* product data analyst
    <<<<"f","i","n","a","n","c","i","a","l"," ","d","a","t","a"," ","a","n","a","l","y","s","t">>, "Data Analyst">>,  \* financial data analyst
    <<<<"f","r","a","u","d"," ","d","a","t","a"," ","a","n","a","l","y","s","t">>, "Data Analyst">>,  \* fraud data analyst
    <<<<"c","l","i","n","i","c","a","l"," ","d","a","t","a"," ","a","n","a","l","y","s","t">>, "Data Analyst">>,  \* clinical data analyst
    <<<<"g","i","s"," ","a","n","a","l","y","s","t">>, "Data Analyst">>,  \* gis analyst
    <<<<"p","e","o","p","l","e"," ","a","n","a","l","y","t","i","c","s"," ","a","n","a","l","y","s","t">>, "Data Analyst">>,  \* people analytics analyst
    <<<<"s","a","l","e","s"," ","a","n","a","l","y","t","i","c","s"," ","a","n","a","l","y","s","t">>, "Data Analyst">>,  \* sales analytics analyst
    <<<<"c","u","s","t","o","m","e","r"," ","a","n","a","l","y","t","i","c","s"," ","a","n","a","l","y","s","t">>, "Data Analyst">>,  \* customer analytics analyst
    <<<<"q","u","a","n","t","i","t","a","t","i","v","e"," ","a","n","a","l","y","s","t">>, "Data Analyst">>,  \* quantitative analyst
    <<<<"d","a","t","a"," ","v","i","s","u","a","l","i","z","a","t","i","o","n"," ","a","n","a","l","y","s","t">>, "Data Analyst">>,  \* data visualization analyst
    <<<<"b","u","s","i","n","e","s","s"," ","a","n","a","l","y","s","t">>, "Data Analyst">>,  \* business analyst
    <<<<"s","o","f","t","w","a","r","e"," ","e","n","g","i","n","e","e","r">>, "SWE">>,  \* software engineer
    <<<<"s","o","f","t","w","a","r","e"," ","d","e","v","e","l","o","p","e","r">>, "SWE">>,  \* software developer
    <<<<"j","u","n","i","o","r"," ","s","o","f","t","w","a","r","e"," ","e","n","g","i","n","e","e","r">>, "SWE">>,  \* junior software engineer
    <<<<"a","s","s","o","c","i","a","t","e"," ","s","o","f","t","w","a","r","e"," ","e","n","g","i","n","e","e","r">>, "SWE">>,  \* associate software engineer
    <<<<"e","n","t","r","y"," ","l","e","v","e","l"," ","s","o","f","t","w","a","r","e"," ","e","n","g","i","n","e","e","r">>, "SWE">>,  \* entry level software engineer
    <<<<"n","e","w"," ","g","r","a","d"," ","s","o","f","t","w","a","r","e"," ","e","n","g","i","n","e","e","r">>, "SWE">>,  \* new grad software engineer
    <<<<"g","r","a","d","u","a","t","e"," ","s","o","f","t","w","a","r","e"," ","e","n","g","i","n","e","e","r">>, "SWE">>,  \* graduate software engineer
    <<<<"f","r","o","n","t","e","n","d"," ","e","n","g","i","n","e","e","r">>, "SWE">>,  \* frontend engineer
    <<<<"b","a","c","k","e","n","d"," ","e","n","g","i","n","e","e","r">>, "SWE">>,  \* backend engineer
    <<<<"f","u","l","l"," ","s","t","a","c","k"," ","e","n","g","i","n","e","e","r">>, "SWE">>,  \* full stack engineer
    <<<<"f","u","l","l","s","t","a","c","k"," ","e","n","g","i","n","e","e","r">>, "SWE">>,  \* fullstack engineer
    <<<<"f","u","l","l"," ","s","t","a","c","k"," ","d","e","v","e","l","o","p","e","r">>, "SWE">>,  \* full stack developer
    <<<<"w","e","b"," ","d","e","v","e","l","o","p","e","r">>, "SWE">>,  \* web developer
    <<<<"m","o","b","i","l","e"," ","e","n","g","i","n","e","e","r">>, "SWE">>,  \* mobile engineer
    <<<<"i","o","s"," ","e","n","g","i","n","e","e","r">>, "SWE">>,  \* ios engineer
    <<<<"a","n","d","r","o","i","d"," ","e","n","g","i","n","e","e","r">>, "SWE">>,  \* android engineer
    <<<<"c","l","o","u","d"," ","e","n","g","i","n","e","e","r">>, "SWE">>,  \* cloud engineer
    <<<<"d","e","v","o","p","s"," ","e","n","g","i","n","e","e","r">>, "SWE">>,  \* devops engineer
    <<<<"s","i","t","e"," ","r","e","l","i","a","b","i","l","i","t","y"," ","e","n","g","i","n","e","e","r">>, "SWE">>,  \* site reliability engineer
    <<<<"s","r","e">>, "SWE">>,  \* sre
    <<<<"p","l","a","t","f","o","r","m"," ","e","n","g","i","n","e","e","r">>, "SWE">>,  \* platform engineer
    <<<<"i","n","f","r","a","s","t","r","u","c","t","u","r","e"," ","e","n","g","i","n","e","e","r">>, "SWE">>,  \* infrastructure engineer
    <<<<"s","y","s","t","e","m","s"," ","e","n","g","i","n","e","e","r">>, "SWE">>,  \* systems engineer
    <<<<"n","e","t","w","o","r","k"," ","e","n","g","i","n","e","e","r">>, "SWE">>,  \* network engineer
    <<<<"a","u","t","o","m","a","t","i","o","n"," ","e","n","g","i","n","e","e","r">>, "SWE">>,  \* automation engineer
    <<<<"s","o","l","u","t","i","o","n","s"," ","e","n","g","i","n","e","e","r">>, "SWE">>,  \* solutions engineer
    <<<<"a","p","p","l","i","c","a","t","i","o","n"," ","e","n","g","i","n","e","e","r">>, "SWE">>,  \* application engineer
    <<<<"e","m","b","e","d","d","e","d"," ","s","o","f","t","w","a","r","e"," ","e","n","g","i","n","e","e","r">>, "SWE">>,  \* embedded software engineer
    <<<<"d","a","t","a","b","a","s","e"," ","a","d","m","i","n","i","s","t","r","a","t","o","r">>, "SWE">>,  \* database administrator
    <<<<"q","a"," ","e","n","g","i","n","e","e","r">>, "SWE">>,  \* qa engineer
    <<<<"q","u","a","l","i","t","y"," ","a","s","s","u","r","a","n","c","e"," ","a","n","a","l","y","s","t">>, "SWE">>,  \* quality assurance analyst
    <<<<"t","e","s","t"," ","e","n","g","i","n","e","e","r">>, "SWE">>,  \* test engineer
    <<<<"s","d","e","t">>, "SWE">>,  \* sdet
    <<<<"s","e","c","u","r","i","t","y"," ","e","n","g","i","n","e","e","r">>, "SWE">>,  \* security engineer
    <<<<"c","y","b","e","r","s","e","c","u","r","i","t","y"," ","a","n","a","l","y","s","t">>, "SWE">>,  \* cybersecurity analyst
    <<<<"n","e","w"," ","c","o","l","l","e","g","e"," ","g","r","a","d">>, "New Grad">>,  \* new college grad
    <<<<"r","o","t","a","t","i","o","n","a","l"," ","p","r","o","g","r","a","m">>, "New Grad">>,  \* rotational program
    <<<<"t","e","c","h","n","o","l","o","g","y"," ","d","e","v","e","l","o","p","m","e","n","t"," ","p","r","o","g","r","a","m">>, "New Grad">>,  \* technology development program
    <<<<"e","n","g","i","n","e","e","r","i","n","g"," ","d","e","v","e","l","o","p","m","e","n","t"," ","p","r","o","g","r","a","m">>, "New Grad">>,  \* engineering development program
    <<<<"l","e","a","d","e","r","s","h","i","p"," ","d","e","v","e","l","o","p","m","e","n","t"," ","p","r","o","g","r","a","m">>, "New Grad">>,  \* leadership development program
    <<<<"n","e","w"," ","g","r","a","d"," ","2","0","2","6">>, "New Grad">>,  \* new grad 2026
    <<<<"n","e","w"," ","g","r","a","d"," ","2","0","2","5">>, "New Grad">>,  \* new grad 2025
    <<<<"u","n","i","v","e","r","s","i","t","y"," ","g","r","a","d","u","a","t","e">>, "New Grad">>,  \* university graduate
    <<<<"r","e","c","e","n","t"," ","g","r","a","d","u","a","t","e"," ","p","r","o","g","r","a","m">>, "New Grad">>,  \* recent graduate program
    <<<<"a","s","s","o","c","i","a","t","e"," ","d","a","t","a"," ","p","r","o","f","e","s","s","i","o","n","a","l">>, "New Grad">>,  \* associate data professional
    <<<<"t","e","c","h","n","o","l","o","g","y"," ","a","n","a","l","y","s","t">>, "New Grad">>,  \* technology analyst
    <<<<"e","n","g","i","n","e","e","r","i","n","g"," ","a","n","a","l","y","s","t">>, "New Grad">>,  \* engineering analyst
    <<<<"a","s","s","o","c","i","a","t","e"," ","p","r","o","d","u","c","t"," ","m","a","n","a","g","e","r">>, "Product">>,  \* associate product manager
    <<<<"t","e","c","h","n","i","c","a","l"," ","p","r","o","d","u","c","t"," ","m","a","n","a","g","e","r">>, "Product">>,  \* technical product manager
    <<<<"r","e","s","e","a","r","c","h"," ","a","s","s","o","c","i","a","t","e">>, "Research">>,  \* research associate
    <<<<"r","e","s","e","a","r","c","h"," ","e","n","g","i","n","e","e","r">>, "Research">>,  \* research engineer
    <<<<"c","o","m","p","u","t","a","t","i","o","n","a","l"," ","b","i","o","l","o","g","i","s","t">>, "Research">>   \* computational biologist
  >>


\* pattern_search without re.IGNORECASE
pattern_search_case_sensitive(kw, title) ==
  \E i \in 1..(Len(title) - Len(kw) + 1) : \A j \in 1..Len(kw) : title[i + j - 1] = kw[j]

\* pattern.search(title) with pattern = re.compile(re.escape(kw), re.IGNORECASE)
pattern_search(kw, title) ==
  \E i \in 1..(Len(title) - Len(kw) + 1) :
    \A j \in 1..Len(kw) : LowerChar[title[i + j - 1]] = LowerChar[kw[j]]

\* matches_target_role: the set of matched categories (the code returns
\* list(set), whose order is unspecified)
matches_target_role(title) ==
  IF title = <<>> THEN {}
  ELSE {ROLE_KEYWORDS[n][2] :
          n \in {m \in DOMAIN ROLE_KEYWORDS : pattern_search(ROLE_KEYWORDS[m][1], title)}}

(***************************************************************************)
(* Geography filter (us_filter.py).                                        *)
(***************************************************************************)

\* include_patterns / exclude_patterns of config/us_locations.json, lower-cased
_INCLUDE == <<<<"r","e","m","o","t","e">>, <<"u","s","a">>, <<"u","n","i","t","e","d"," ","s","t","a","t","e","s">>, <<"t","e","x","a","s">>, <<"t","x">>>>
_EXCLUDE == <<<<"l","o","n","d","o","n">>, <<"i","n","d","i","a">>, <<"c","a","n","a","d","a">>, <<"g","e","r","m","a","n","y">>>>

_STATE_CODES ==
  {<<"a","l">>, <<"a","k">>, <<"a","z">>, <<"a","r">>, <<"c","a">>, <<"c","o">>,
   <<"c","t">>, <<"d","e">>, <<"f","l">>, <<"g","a">>, <<"h","i">>, <<"i","d">>,
   <<"i","l">>, <<"i","n">>, <<"i","a">>, <<"k","s">>, <<"k","y">>, <<"l","a">>,
   <<"m","e">>, <<"m","d">>, <<"m","a">>, <<"m","i">>, <<"m","n">>, <<"m","s">>,
   <<"m","o">>, <<"m","t">>, <<"n","e">>, <<"n","v">>, <<"n","h">>, <<"n","j">>,
   <<"n","m">>, <<"n","y">>, <<"n","c">>, <<"n","d">>, <<"o","h">>, <<"o","k">>,
   <<"o","r">>, <<"p","a">>, <<"r","i">>, <<"s","c">>, <<"s","d">>, <<"t","n">>,
   <<"t","x">>, <<"u","t">>, <<"v","t">>, <<"v","a">>, <<"w","a">>, <<"w","v">>,
   <<"w","i">>, <<"w","y">>, <<"d","c">>}

GENERIC_LOCATIONS == {<<>>, <<"u","n","k","n","o","w","n">>, <<"n","/","a">>, <<"v","a","r","i","o","u","s">>, <<"m","u","l","t","i","p","l","e">>}

IsAlpha(c) == (ORD[c] >= 65 /\ ORD[c] <= 90) \/ (ORD[c] >= 97 /\ ORD[c] <= 122)
IsDigit(c) == ORD[c] >= 48 /\ ORD[c] <= 57
\* \w of the re module (the alphabet has no underscore)
IsWord(c) == IsAlpha(c) \/ IsDigit(c)

\* re.findall(r'\b[A-Za-z]{2}\b', location)
two_letter_words(location) ==
  {SubSeq(location, i, i + 1) : i \in
     {k \in 1..(Len(location) - 1) :
        /\ IsAlpha(location[k]) /\ IsAlpha(location[k + 1])
        /\ (k = 1 \/ ~IsWord(location[k - 1]))
        /\ (k + 1 = Len(location) \/ ~IsWord(location[k + 2]))}}

\* is_us_location rejecting a location in which nothing is recognised
is_us_location_reject_unrecognised(location) ==
  IF location = <<>> THEN TRUE
  ELSE LET loc_lower == strip(lower(location)) IN
    IF loc_lower \in GENERIC_LOCATIONS THEN TRUE
    ELSE IF \E e \in DOMAIN _EXCLUDE : Contains(loc_lower, _EXCLUDE[e]) THEN FALSE
    ELSE IF \E n \in DOMAIN _INCLUDE :
              Len(_INCLUDE[n]) > 2 /\ Contains(loc_lower, _INCLUDE[n]) THEN TRUE
    ELSE IF \E w \in two_letter_words(location) : lower(w) \in _STATE_CODES THEN TRUE
    ELSE FALSE

\* is_us_location(location)
is_us_location(location) ==
  IF location = <<>> THEN TRUE
  ELSE LET loc_lower == strip(lower(location)) IN
    IF loc_lower \in GENERIC_LOCATIONS THEN TRUE
    ELSE IF \E e \in DOMAIN _EXCLUDE : Contains(loc_lower, _EXCLUDE[e]) THEN FALSE
    ELSE IF \E n \in DOMAIN _INCLUDE :
              Len(_INCLUDE[n]) > 2 /\ Contains(loc_lower, _INCLUDE[n]) THEN TRUE
    ELSE IF \E w \in two_letter_words(location) : lower(w) \in _STATE_CODES THEN TRUE
    ELSE TRUE


(***************************************************************************)
(* Recency filter (parallel_ingestor.py, is_within_window).                *)
(*                                                                         *)
(* Time is counted in ticks.  A date string is modelled by what the        *)
(* parsers of is_within_window make of it:                                 *)
(*   [kind |-> "empty"]                     the empty string               *)
(*   [kind |-> "iso", at |-> t]             one of the five strptime       *)
(*                                          formats parses it to instant t *)
(*   [kind |-> "num", unit |-> u, at |-> t] float() parses it; u = "ms"    *)
(*                                          iff the value exceeds 1e12;    *)
(*                                          t is the instant it denotes    *)
(*   [kind |-> "text", s |-> chars]         neither: the phrase itself     *)
(*   [kind |-> "nonstr"]                    a JSON value that is no string *)
(*   [kind |-> "huge"]                      float() parses it to a number  *)
(*                                          beyond the range of time_t     *)
(***************************************************************************)
TICKS_PER_HOUR == 2

EmptyDate == [kind |-> "empty"]
IsoDate(t) == [kind |-> "iso", at |-> t]
NumDate(u, t) == [kind |-> "num", unit |-> u, at |-> t]
TextDate(s) == [kind |-> "text", s |-> s]
NonStrDate == [kind |-> "nonstr"]
\* a numeric string beyond the range of time_t ("1e30", "inf")
HugeDate == [kind |-> "huge"]

RECURSIVE to_int(_)
\* int(match.group(1))
to_int(ds) ==
  IF ds = <<>> THEN 0
  ELSE to_int(SubSeq(ds, 1, Len(ds) - 1)) * 10 + (ORD[ds[Len(ds)]] - 48)

RECURSIVE digits_end(_, _)
\* index of the last character of the run of digits that starts at i
digits_end(s, i) ==
  IF i < Len(s) /\ IsDigit(s[i + 1]) THEN digits_end(s, i + 1) ELSE i

RECURSIVE skip_space(_, _)
\* \s* from index k on: the first index that is not white space
skip_space(s, k) ==
  IF k <= Len(s) /\ s[k] \in WHITESPACE THEN skip_space(s, k + 1) ELSE k

DAY == <<"d","a","y">>
MONTH == <<"m","o","n","t","h">>
YEAR == <<"y","e","a","r">>

\* day_match_at with no "+" allowed after the digits
day_match_at_without_plus(s, i) ==
  /\ IsDigit(s[i])
  /\ LET e == digits_end(s, i)
         d == skip_space(s, e + 1)
     IN  d + 2 <= Len(s) /\ SubSeq(s, d, d + 2) = DAY

\* whether r'(\d+)\+?\s*day' matches with its first digit at index i
day_match_at(s, i) ==
  /\ IsDigit(s[i])
  /\ LET e == digits_end(s, i)
         p == IF e < Len(s) /\ s[e + 1] = "+" THEN e + 2 ELSE e + 1
         d == skip_space(s, p)
     IN  d + 2 <= Len(s) /\ SubSeq(s, d, d + 2) = DAY

\* re.search(r'(\d+)\+?\s*day', s): the start of the leftmost match, or 0
day_search(s) ==
  IF \E i \in 1..Len(s) : day_match_at(s, i)
  THEN CHOOSE i \in 1..Len(s) :
         day_match_at(s, i) /\ \A k \in 1..(i - 1) : ~day_match_at(s, k)
  ELSE 0

\* is_within_window, lines 142-148: float(date_str) succeeds and
\* datetime.fromtimestamp raises OverflowError, which the except clause
\* (ValueError, OSError) lets through
is_within_window_raises(date_str) == date_str.kind = "huge"

\* is_within_window with a date exactly at the cutoff left out
is_within_window_exclusive(date_str, window_hours, clock) ==
  IF date_str.kind = "empty" THEN TRUE
  ELSE LET cutoff == clock - window_hours * TICKS_PER_HOUR IN
    IF date_str.kind = "iso" THEN date_str.at > cutoff
    ELSE IF date_str.kind = "num" THEN date_str.at > cutoff
    ELSE LET date_str_lower == lower(date_str.s) IN
      IF Contains(date_str_lower, MONTH) \/ Contains(date_str_lower, YEAR)
      THEN window_hours >= 720
      ELSE LET m == day_search(date_str_lower) IN
        IF m # 0
        THEN LET days == to_int(SubSeq(date_str_lower, m, digits_end(date_str_lower, m)))
             IN  days * 24 <= window_hours
        ELSE TRUE

\* is_within_window(date_str, window_hours), with datetime.now() = clock
is_within_window(date_str, window_hours, clock) ==
  IF date_str.kind = "empty" THEN TRUE
  ELSE LET cutoff == clock - window_hours * TICKS_PER_HOUR IN
    IF date_str.kind = "iso" THEN date_str.at >= cutoff
    ELSE IF date_str.kind = "num" THEN date_str.at >= cutoff
    ELSE LET date_str_lower == lower(date_str.s) IN
      IF Contains(date_str_lower, MONTH) \/ Contains(date_str_lower, YEAR)
      THEN window_hours >= 720
      ELSE LET m == day_search(date_str_lower) IN
        IF m # 0
        THEN LET days == to_int(SubSeq(date_str_lower, m, digits_end(date_str_lower, m)))
             IN  days * 24 <= window_hours
        ELSE TRUE

(***************************************************************************)
(* Dedup engine (parallel_ingestor.py, dedup_jobs).                        *)
(***************************************************************************)
RECURSIVE dedup_loop_no_seen(_, _, _, _)
\* dedup_loop without the test against the keys seen earlier in the batch
dedup_loop_no_seen(jobs, known_keys, seen, unique) ==
  IF jobs = <<>> THEN unique
  ELSE IF dedup_key(Head(jobs)) \notin known_keys
  THEN dedup_loop_no_seen(Tail(jobs), known_keys, seen, Append(unique, Head(jobs)))
  ELSE dedup_loop_no_seen(Tail(jobs), known_keys, seen, unique)

RECURSIVE dedup_loop(_, _, _, _)
\* the loop of dedup_jobs over the remaining jobs
dedup_loop(jobs, known_keys, seen, unique) ==
  IF jobs = <<>> THEN unique
  ELSE LET job == Head(jobs)
           key == dedup_key(job)
       IN  IF key \notin known_keys /\ key \notin seen
           THEN dedup_loop(Tail(jobs), known_keys, seen \cup {key}, Append(unique, job))
           ELSE dedup_loop(Tail(jobs), known_keys, seen, unique)

dedup_jobs(new_jobs, known_keys) == dedup_loop(new_jobs, known_keys, {}, <<>>)


(***************************************************************************)
(* Upstream sources: what a registry entry, a posting and an HTTP exchange *)
(* look like to the adapters (ats_adapters.py).                            *)
(***************************************************************************)

T_ML_ENGINEER == <<"M","L"," ","E","n","g","i","n","e","e","r">>
T_ML_ENGINEER_LC == <<"m","l"," ","e","n","g","i","n","e","e","r">>
T_SOFTWARE_ENGINEER == <<"S","o","f","t","w","a","r","e"," ","E","n","g","i","n","e","e","r">>
T_DATA_ENGINEER == <<"D","a","t","a"," ","E","n","g","i","n","e","e","r">>
T_DATA_SCIENTIST == <<"D","a","t","a"," ","S","c","i","e","n","t","i","s","t">>
T_CHEF == <<"C","h","e","f">>
L_REMOTE == <<"R","e","m","o","t","e">>
L_REMOTE_LC == <<"r","e","m","o","t","e">>
L_AUSTIN == <<"A","u","s","t","i","n",","," ","T","X">>
L_LONDON == <<"L","o","n","d","o","n",","," ","U","K">>
L_UNKNOWN == <<"U","n","k","n","o","w","n">>
C_ACME == <<"A","c","m","e">>
C_INITECH == <<"I","n","i","t","e","c","h">>
C_GLOBEX == <<"G","l","o","b","e","x">>
C_UNKNOWN == <<"U","n","k","n","o","w","n">>

\* the clock of the first cycle, and instants relative to it
CLOCK0 == 100
T_NOW == CLOCK0
T_2TICKS_AGO == CLOCK0 - 2
T_LONG_AGO == CLOCK0 - 100

\* one element of an upstream payload, by the fields the adapters read
Posting(title, location, url, id, date, created_at) ==
  [title |-> title, location |-> location, url |-> url, id |-> id,
   date |-> date, created_at |-> created_at]

P_ML == Posting(T_ML_ENGINEER, L_REMOTE, "u1", "1", IsoDate(T_NOW), T_NOW)
P_ML_DUP == Posting(T_ML_ENGINEER_LC, L_REMOTE_LC, "u2", "2", IsoDate(T_2TICKS_AGO), T_2TICKS_AGO)
P_SWE_OLD == Posting(T_SOFTWARE_ENGINEER, L_AUSTIN, "u3", "3", IsoDate(T_LONG_AGO), 0)
P_CHEF == Posting(T_CHEF, L_REMOTE, "u4", "4", IsoDate(T_NOW), T_NOW)
P_LONDON == Posting(T_DATA_ENGINEER, L_LONDON, "u5", "5", IsoDate(T_NOW), T_NOW)
P_DS == Posting(T_DATA_SCIENTIST, L_REMOTE, "u6", "6", EmptyDate, 0)
P_DE == Posting(T_DATA_ENGINEER, L_AUSTIN, "u7", "7", IsoDate(CLOCK0 - 3), CLOCK0 - 3)

\* a JSON value of a payload that is not a string (a number, an object): it
\* is no sequence of characters
JSON_OBJECT == <<"{}">>
is_str(v) == \A i \in DOMAIN v : v[i] \in DOMAIN ORD

\* a posting whose location is an object
P_LOCATION_OBJECT == Posting(T_ML_ENGINEER, JSON_OBJECT, "u8", "8", IsoDate(T_NOW), T_NOW)

\* the lock glyph (U+1F512), one character of a line
LOCK_GLYPH == "U+1F512"

\* lines of the README of a repository
MD_HEADER == <<"|","C","o","m","p","a","n","y","|","R","o","l","e","|","L","i","n","k","|">>
MD_HEADER_WIDE == <<"|","D","a","t","e","|","C","i","t","y","|","E","m","p","l","o","y","e","r","|">>
MD_SEPARATOR == <<"|","-","-","-","|",":","-",":","|","-","-","-","|">>
MD_ROW_ACME == <<"|","A","c","m","e","|","M","L"," ","E","n","g","i","n","e","e","r","|","[","A","p","p","l","y","]","(","h","t","t","p",":","/","/","a",")","|">>
MD_ROW_LINKED == <<" ","|","[","I","n","i","t","e","c","h","]","(","h","t","t","p",":","/","/","i",")","|","S","W","E","|","|">>
MD_ROW_SHORT == <<"|","G","l","o","b","e","x","|","S","W","E","|">>
MD_ROW_STRUCK == <<"|","~","~","A","c","m","e","~","~","|","S","W","E","|","[","x","]","(","h","t","t","p",":","/","/","c",")","|">>
MD_ROW_LOCKED == <<"|","A","c","m","e","|","S","W","E"," ",LOCK_GLYPH,"|","-","|">>
MD_TEXT == <<"N","o","t","e","s">>
MD_BLANK == <<>>
LABEL_AI_NEWGRAD == <<"a","i","-","n","e","w","g","r","a","d">>
LABEL_SWE_NEWGRAD == <<"s","w","e","-","n","e","w","g","r","a","d">>
LABEL_NEW_GRAD == <<"n","e","w","-","g","r","a","d">>
LABEL_INTERNSHIP == <<"i","n","t","e","r","n","s","h","i","p">>

\* the outcome of one HTTP exchange with an upstream
OkResponse(postings) == [kind |-> "ok", postings |-> postings]
HTTP_ERROR == [kind |-> "http_error"]        \* status other than 200
TIMEOUT == [kind |-> "timeout"]              \* session.get raises: no connection, or
                                             \* ClientTimeout(total=30) expires
GARBLED == [kind |-> "garbled"]              \* 200 whose body is not the expected JSON
TextResponse(lines) == [kind |-> "text", text |-> lines]   \* 200 with a text body

TransportFailures == {"http_error", "timeout"}

\* the payloads an upstream may answer with
Payloads == {<<P_ML, P_SWE_OLD, P_ML_DUP>>, <<P_LONDON, P_DE>>}

Responses == {OkResponse(p) : p \in Payloads} \cup {HTTP_ERROR, TIMEOUT, GARBLED}

\* a registry entry; slug is "str3" (a string of three ":"-separated parts),
\* "str1" (any other string), "int" (a JSON number) or "missing" (no such key)
Entry(company, ats, slug) == [company |-> company, ats |-> ats, slug |-> slug]

E_ACME == Entry(C_ACME, "greenhouse", "str1")
E_INITECH == Entry(C_INITECH, "lever", "str1")
E_BAD_WORKDAY == Entry(C_GLOBEX, "workday", "int")
E_NO_SLUG == Entry(C_GLOBEX, "greenhouse", "missing")

\* config/company_registry.json: missing, or holding a JSON list of entries
NO_REGISTRY == [state |-> "absent"]
RegistryList(entries) == [state |-> "list", data |-> entries]
\* read_text raises OSError (no permission, a directory)
UNREADABLE_REGISTRY == [state |-> "unreadable"]
\* read_text raises UnicodeDecodeError: the bytes are not UTF-8
NOT_UTF8_REGISTRY == [state |-> "not_utf8"]
\* json.loads raises JSONDecodeError
INVALID_JSON_REGISTRY == [state |-> "invalid_json"]
\* valid JSON that is neither a list nor an object: a number, a string, null
SCALAR_REGISTRY == [state |-> "scalar"]
\* a JSON object, with or without the key "companies"
RegistryObject(has_companies, entries) ==
  [state |-> "object", has_companies |-> has_companies, data |-> entries]

\* the registry files of the model
RegistryFiles ==
  {NO_REGISTRY, RegistryList(<<E_ACME, E_INITECH>>), RegistryList(<<E_BAD_WORKDAY, E_NO_SLUG>>),
   RegistryList(<<>>), UNREADABLE_REGISTRY, NOT_UTF8_REGISTRY, INVALID_JSON_REGISTRY,
   SCALAR_REGISTRY, RegistryObject(FALSE, <<>>)}

Return(jobs) == [raised |-> FALSE, jobs |-> jobs]
Raise(exc) == [raised |-> TRUE, exc |-> exc]

\* load_registry(): the list of entries, or the exception that leaves it
load_registry(file) ==
  IF file.state = "absent" THEN Return(<<>>)
  ELSE IF file.state = "unreadable" THEN Return(<<>>)
  ELSE IF file.state = "not_utf8" THEN Raise("UnicodeDecodeError")
  ELSE IF file.state = "invalid_json" THEN Return(<<>>)
  ELSE IF file.state = "list" THEN Return(file.data)
  ELSE IF file.state = "object"
  THEN Return(IF file.has_companies THEN file.data ELSE <<>>)
  ELSE Raise("AttributeError")

(***************************************************************************)
(* ATS adapters (ats_adapters.py).                                         *)
(***************************************************************************)
ADAPTERS == {"greenhouse", "lever", "ashby", "smartrecruiters", "bamboohr", "workday"}

\* _is_within_24h(timestamp); 0 stands for a missing or zero createdAt
_is_within_24h(timestamp, clock) ==
  IF timestamp = 0 THEN TRUE ELSE timestamp >= clock - 24 * TICKS_PER_HOUR

\* the jobs an adapter's loop builds from a 200 payload
adapter_jobs(ats, company, postings, clock) ==
  IF ats = "lever"
  THEN LET kept == SelectSeq(postings, LAMBDA p : _is_within_24h(p.created_at, clock))
       IN  [i \in 1..Len(kept) |->
              NormalizedJob(kept[i].title, company, kept[i].location, kept[i].url,
                            IF kept[i].created_at # 0 THEN IsoDate(kept[i].created_at)
                                                      ELSE EmptyDate,
                            ats, kept[i].id)]
  ELSE [i \in 1..Len(postings) |->
          NormalizedJob(postings[i].title, company, postings[i].location,
                        postings[i].url, postings[i].date, ats, postings[i].id)]

\* adapter_fetch letting the exception of the parse of a garbled body escape
adapter_fetch_parse_error_escapes(ats, slug, company, resp, clock) ==
  IF ats = "workday" /\ slug = "int" THEN Raise("AttributeError")
  ELSE IF ats = "workday" /\ slug # "str3" THEN Return(<<>>)
  ELSE IF resp.kind = "ok" THEN Return(adapter_jobs(ats, company, resp.postings, clock))
  ELSE IF resp.kind = "garbled" THEN Raise("ContentTypeError")
  ELSE Return(<<>>)

\* <Adapter>.fetch(session, slug, company): the try block of every adapter
\* turns a non-200 status, an exception of the transport and an exception of
\* the parse into an empty list
adapter_fetch(ats, slug, company, resp, clock) ==
  IF ats = "workday" /\ slug = "int" THEN Raise("AttributeError")
  ELSE IF ats = "workday" /\ slug # "str3" THEN Return(<<>>)
  ELSE IF resp.kind = "ok" THEN Return(adapter_jobs(ats, company, resp.postings, clock))
  ELSE Return(<<>>)

\* whether fetch_company_jobs gets as far as the HTTP request
sends_request(ats, slug) == ats \in ADAPTERS /\ (ats = "workday" => slug = "str3")

\* fetch_company_jobs(session, company, ats, slug)
fetch_company_jobs(company, ats, slug, resp, clock) ==
  IF ats \notin ADAPTERS THEN Return(<<>>)
  ELSE adapter_fetch(ats, slug, company, resp, clock)

(***************************************************************************)
(* Job boards and aggregators (job_board_adapters.py,                      *)
(* aggregator_adapters.py).                                                *)
(***************************************************************************)
JOB_BOARD_ADAPTERS == <<"remoteok", "remotive", "weworkremotely", "dice", "hackernews">>
AGGREGATOR_ADAPTERS == <<"hiringcafe", "jobright", "yc-startup">>

\* <Adapter>.fetch(session) of a board or aggregator: as the ATS adapters,
\* every failure becomes an empty list; the company comes from the payload
board_fetch(name, resp) ==
  IF resp.kind = "ok"
  THEN Return([i \in 1..Len(resp.postings) |->
                 NormalizedJob(resp.postings[i].title, C_GLOBEX, resp.postings[i].location,
                               resp.postings[i].url, resp.postings[i].date, name,
                               resp.postings[i].id)])
  ELSE Return(<<>>)

RECURSIVE fetch_all(_, _, _, _, _)
\* the loop of fetch_all_job_boards / fetch_all_aggregators over the adapters
\* names[n..], with resps[n] the exchange of adapter n
fetch_all(label, names, resps, n, acc) ==
  IF n > Len(names) THEN acc
  ELSE LET r == board_fetch(names[n], resps[n]) IN
       fetch_all(label, names, resps, n + 1,
                 IF r.raised
                 THEN [acc EXCEPT !.errors = Append(@, <<label, names[n], r.exc>>)]
                 ELSE [acc EXCEPT !.jobs = @ \o r.jobs])

fetch_all_job_boards(resps) ==
  fetch_all("Job board", JOB_BOARD_ADAPTERS, resps, 1, [jobs |-> <<>>, errors |-> <<>>])

fetch_all_aggregators(resps) ==
  fetch_all("Aggregator", AGGREGATOR_ADAPTERS, resps, 1, [jobs |-> <<>>, errors |-> <<>>])

\* the exchanges of the five boards, the three aggregators and the four
\* repositories in one cycle
SideExchanges ==
  {[boards |-> [n \in 1..5 |-> HTTP_ERROR], aggregators |-> [n \in 1..3 |-> GARBLED],
    github |-> [n \in 1..4 |-> HTTP_ERROR]],
   [boards |-> [n \in 1..5 |-> IF n = 1 THEN OkResponse(<<P_DS>>) ELSE TIMEOUT],
    aggregators |-> [n \in 1..3 |-> IF n = 3 THEN OkResponse(<<P_CHEF>>) ELSE TIMEOUT],
    github |-> [n \in 1..4 |-> IF n = 1 THEN OkResponse(<<P_DE>>)
                               ELSE IF n = 3 THEN TextResponse(<<MD_HEADER, MD_SEPARATOR, MD_ROW_ACME>>)
                               ELSE TIMEOUT]],
   [boards |-> [n \in 1..5 |-> GARBLED],
    aggregators |-> [n \in 1..3 |-> IF n = 1 THEN OkResponse(<<P_LOCATION_OBJECT>>)
                                              ELSE HTTP_ERROR],
    github |-> [n \in 1..4 |-> GARBLED]]}

(***************************************************************************)
(* The job database file and one ingestion cycle (parallel_ingestor.py).   *)
(***************************************************************************)
MAX_CONCURRENT == 25
MAX_RETRIES == 2
RETRY_DELAY == 2
HISTORY_CAP == 200
ERRORS_CAP == 20

\* bounds of the model
MaxCycles == 2
Windows == {1, 24}

VARIABLES
  jobs_file,      \* data/jobs.json
  registry_file,  \* config/company_registry.json
  clock,          \* datetime.now(), in ticks
  cycles,         \* cycles started so far
  pc,             \* where the running cycle is
  window_hours, registry,
  tasks,          \* the _fetch_with_retry coroutines handed to gather
  permits,        \* value of the semaphore
  all_jobs, errors, succeeded, failed,
  filtered, us_jobs, recent, known_keys, new_jobs, db,
  result,         \* what run_cycle returned
  first_stored,   \* history: the record first written to the file under each key
  keys_at_start,  \* history: the keys the database held when the cycle started
  history_at_start, \* history: the run history it held when the cycle started
  side_exchange,  \* history: the exchanges of the boards, aggregators and
                  \* repositories in this cycle
  call, ret,      \* a direct call of one of the pure functions, and its value
  wd,             \* a call of WorkdayAdapter.fetch
  ut,             \* the files of scripts/utils and the call that works on them
  bot,            \* the Discord bot
  two             \* two cycles on one job database

cycle_vars ==
  <<window_hours, registry, tasks, permits, all_jobs, errors, succeeded, failed,
    filtered, us_jobs, recent, known_keys, new_jobs, db, result>>
hist_vars == <<first_stored, keys_at_start, history_at_start, side_exchange>>
fn_vars == <<call, ret>>
comp_vars == <<wd, ut, bot, two>>
vars == <<jobs_file, registry_file, clock, cycles, pc, cycle_vars, hist_vars, fn_vars, comp_vars>>

EmptyDb == [jobs |-> <<>>, last_updated |-> 0, run_history |-> <<>>]
ABSENT == [state |-> "absent"]
PARTIAL == [state |-> "partial"]   \* truncated by open(.., "w"), not yet fully written
ValidFile(d) == [state |-> "valid", db |-> d]

\* load_known_jobs(): a missing file and a file that is not valid JSON both
\* give the empty database
load_known_jobs(file) == IF file.state = "valid" THEN file.db ELSE EmptyDb

\* a database that earlier cycles have left: one job, stored 10 ticks ago
J_STORED ==
  [NormalizedJob(T_ML_ENGINEER, C_ACME, L_REMOTE, "u1", IsoDate(CLOCK0 - 10), "greenhouse", "1")
     EXCEPT !.first_seen = CLOCK0 - 10, !.keywords_matched = {"AI/ML"}]
DB_EARLIER ==
  [jobs |-> (dedup_key(J_STORED) :> J_STORED),
   last_updated |-> CLOCK0 - 10,
   run_history |-> <<[timestamp |-> CLOCK0 - 10, fetched |-> 1, filtered |-> 1, new |-> 1,
                      succeeded |-> 1, failed |-> 0]>>]

\* the database file before the first cycle of the model
InitialFiles == {ABSENT, ValidFile(DB_EARLIER)}

NoResult == [kind |-> "none"]
\* run_cycle did not return: exc left it, raised in the given stage
Raised(exc, stage) == [kind |-> "raised", exc |-> exc, stage |-> stage]
NoCall == [fn |-> "none"]
\* a component that does not run
OFF == [pc |-> "off"]
ComponentsOff == wd = OFF /\ ut = OFF /\ bot = OFF /\ two = OFF
NoExchange == [kind |-> "none"]

\* the state of the locals of run_cycle before a cycle
CycleIdle ==
  /\ window_hours = 24 /\ registry = <<>> /\ tasks = <<>> /\ permits = MAX_CONCURRENT
  /\ all_jobs = <<>> /\ errors = <<>> /\ succeeded = 0 /\ failed = 0
  /\ filtered = <<>> /\ us_jobs = <<>> /\ recent = <<>> /\ known_keys = {}
  /\ new_jobs = <<>> /\ db = EmptyDb /\ result = NoResult

Init ==
  /\ jobs_file \in InitialFiles
  /\ registry_file \in RegistryFiles
  /\ clock = CLOCK0
  /\ cycles = 0
  /\ pc = "idle"
  /\ CycleIdle
  /\ first_stored = load_known_jobs(jobs_file).jobs
  /\ keys_at_start = {}
  /\ history_at_start = <<>>
  /\ side_exchange = NoExchange
  /\ call = NoCall /\ ret = NoResult
  /\ ComponentsOff

\* lines 222-224: the result of a cycle whose registry is empty
EmptyRegistryResult ==
  [kind |-> "result", new_jobs |-> <<>>, total_fetched |-> 0, total_filtered |-> 0,
   total_new |-> 0, companies_succeeded |-> 0, companies_failed |-> 0,
   errors |-> <<"Empty registry">>]

NewTask == [st |-> "pending", attempt |-> 0, slept |-> <<>>, seen |-> <<>>,
            out |-> NoResult]

\* StartCycle with no early return for an empty registry
StartCycle_without_early_return(w) ==
  /\ pc = "idle"
  /\ cycles < MaxCycles
  /\ cycles' = cycles + 1
  /\ window_hours' = w
  /\ keys_at_start' = DOMAIN load_known_jobs(jobs_file).jobs
  /\ history_at_start' = load_known_jobs(jobs_file).run_history
  /\ side_exchange' = NoExchange
  /\ LET loaded == load_registry(registry_file) IN
       IF loaded.raised
       THEN /\ registry' = <<>>
            /\ tasks' = <<>>
            /\ result' = Raised(loaded.exc, "registry")
            /\ pc' = "raised"
       ELSE /\ registry' = loaded.jobs
            /\ tasks' = [i \in 1..Len(loaded.jobs) |-> NewTask]
            /\ result' = NoResult
            /\ pc' = "fetch"
  /\ UNCHANGED <<jobs_file, registry_file, clock, permits, all_jobs, errors, succeeded, failed, filtered,
                 us_jobs, recent, known_keys, new_jobs, db, first_stored, fn_vars, comp_vars>>

\* run_cycle, lines 215-242: load the registry, return at once when it is
\* empty, else create the semaphore and hand one task per entry to gather
StartCycle(w) ==
  /\ pc = "idle"
  /\ cycles < MaxCycles
  /\ cycles' = cycles + 1
  /\ window_hours' = w
  /\ keys_at_start' = DOMAIN load_known_jobs(jobs_file).jobs
  /\ history_at_start' = load_known_jobs(jobs_file).run_history
  /\ side_exchange' = NoExchange
  /\ LET loaded == load_registry(registry_file) IN
       IF loaded.raised
       THEN /\ registry' = <<>>
            /\ tasks' = <<>>
            /\ result' = Raised(loaded.exc, "registry")
            /\ pc' = "raised"
       ELSE /\ registry' = loaded.jobs
            /\ IF loaded.jobs = <<>>
               THEN /\ tasks' = <<>>
                    /\ result' = EmptyRegistryResult
                    /\ pc' = "returned"
               ELSE /\ tasks' = [i \in 1..Len(loaded.jobs) |-> NewTask]
                    /\ result' = NoResult
                    /\ pc' = "fetch"
  /\ UNCHANGED <<jobs_file, registry_file, clock, permits, all_jobs, errors, succeeded, failed, filtered,
                 us_jobs, recent, known_keys, new_jobs, db, first_stored, fn_vars, comp_vars>>

\* TaskEnter with no semaphore to wait for
TaskEnter_without_semaphore(i) ==
  /\ pc = "fetch"
  /\ i \in DOMAIN tasks
  /\ tasks[i].st = "pending"
  /\ IF registry[i].slug = "missing"
     THEN /\ tasks' = [tasks EXCEPT ![i].st = "done", ![i].out = Raise("KeyError")]
          /\ UNCHANGED permits
     ELSE /\ permits' = permits - 1
          /\ tasks' = [tasks EXCEPT ![i].st = "running"]
  /\ UNCHANGED <<jobs_file, registry_file, clock, cycles, pc, window_hours, registry, all_jobs, errors,
                 succeeded, failed, filtered, us_jobs, recent, known_keys, new_jobs, db,
                 result, hist_vars, fn_vars, comp_vars>>

\* _fetch_with_retry, lines 180-184: read the entry (KeyError when a key is
\* missing: the task ends with that exception), then enter the semaphore
TaskEnter(i) ==
  /\ pc = "fetch"
  /\ i \in DOMAIN tasks
  /\ tasks[i].st = "pending"
  /\ IF registry[i].slug = "missing"
     THEN /\ tasks' = [tasks EXCEPT ![i].st = "done", ![i].out = Raise("KeyError")]
          /\ UNCHANGED permits
     ELSE /\ permits > 0
          /\ permits' = permits - 1
          /\ tasks' = [tasks EXCEPT ![i].st = "running"]
  /\ UNCHANGED <<jobs_file, registry_file, clock, cycles, pc, window_hours, registry, all_jobs, errors,
                 succeeded, failed, filtered, us_jobs, recent, known_keys, new_jobs, db,
                 result, hist_vars, fn_vars, comp_vars>>

\* what the task returns: (name, jobs, error); error "" stands for None
TaskResult(name, jobs, error) ==
  [raised |-> FALSE, name |-> name, jobs |-> jobs, error |-> error]

\* TaskAttempt leaving the semaphore locked when the task returns
TaskAttempt_never_releasing(i, resp) ==
  /\ pc = "fetch"
  /\ i \in DOMAIN tasks
  /\ tasks[i].st = "running"
  /\ LET e == registry[i]
         t == tasks[i]
         r == fetch_company_jobs(e.company, e.ats, e.slug, resp, clock)
         seen == Append(t.seen, IF sends_request(e.ats, e.slug) THEN resp.kind ELSE "none")
     IN  IF ~r.raised
         THEN tasks' = [tasks EXCEPT ![i] = [t EXCEPT !.st = "done", !.seen = seen,
                                 !.out = TaskResult(e.company, r.jobs, "")]]
         ELSE IF t.attempt < MAX_RETRIES
         THEN tasks' = [tasks EXCEPT ![i] = [t EXCEPT !.st = "sleeping", !.seen = seen,
                                 !.slept = Append(@, RETRY_DELAY * (t.attempt + 1))]]
         ELSE tasks' = [tasks EXCEPT ![i] = [t EXCEPT !.st = "done", !.seen = seen,
                                 !.out = TaskResult(e.company, <<>>, r.exc)]]
  /\ UNCHANGED <<jobs_file, registry_file, clock, cycles, pc, window_hours, registry, permits, all_jobs,
                 errors, succeeded, failed, filtered, us_jobs, recent, known_keys, new_jobs, db,
                 result, hist_vars, fn_vars, comp_vars>>

\* _fetch_with_retry, lines 185-193: one pass of the retry loop, the upstream
\* answering resp
TaskAttempt(i, resp) ==
  /\ pc = "fetch"
  /\ i \in DOMAIN tasks
  /\ tasks[i].st = "running"
  /\ LET e == registry[i]
         t == tasks[i]
         r == fetch_company_jobs(e.company, e.ats, e.slug, resp, clock)
         seen == Append(t.seen, IF sends_request(e.ats, e.slug) THEN resp.kind ELSE "none")
     IN  IF ~r.raised
         THEN /\ tasks' = [tasks EXCEPT ![i] = [t EXCEPT !.st = "done", !.seen = seen,
                                 !.out = TaskResult(e.company, r.jobs, "")]]
              /\ permits' = permits + 1
         ELSE IF t.attempt < MAX_RETRIES
         THEN /\ tasks' = [tasks EXCEPT ![i] = [t EXCEPT !.st = "sleeping", !.seen = seen,
                                 !.slept = Append(@, RETRY_DELAY * (t.attempt + 1))]]
              /\ UNCHANGED permits
         ELSE /\ tasks' = [tasks EXCEPT ![i] = [t EXCEPT !.st = "done", !.seen = seen,
                                 !.out = TaskResult(e.company, <<>>, r.exc)]]
              /\ permits' = permits + 1
  /\ UNCHANGED <<jobs_file, registry_file, clock, cycles, pc, window_hours, registry, all_jobs, errors,
                 succeeded, failed, filtered, us_jobs, recent, known_keys, new_jobs, db,
                 result, hist_vars, fn_vars, comp_vars>>

\* TaskWake entering the semaphore again after the sleep
TaskWake_reacquiring(i) ==
  /\ pc = "fetch"
  /\ i \in DOMAIN tasks
  /\ tasks[i].st = "sleeping"
  /\ tasks' = [tasks EXCEPT ![i].st = "running", ![i].attempt = @ + 1]
  /\ permits' = permits - 1
  /\ UNCHANGED <<jobs_file, registry_file, clock, cycles, pc, window_hours, registry, all_jobs,
                 errors, succeeded, failed, filtered, us_jobs, recent, known_keys,
                 new_jobs, db, result, hist_vars, fn_vars, comp_vars>>

\* _fetch_with_retry, line 191 and the next pass of the loop: the sleep ends
TaskWake(i) ==
  /\ pc = "fetch"
  /\ i \in DOMAIN tasks
  /\ tasks[i].st = "sleeping"
  /\ tasks' = [tasks EXCEPT ![i].st = "running", ![i].attempt = @ + 1]
  /\ UNCHANGED <<jobs_file, registry_file, clock, cycles, pc, window_hours, registry, permits, all_jobs,
                 errors, succeeded, failed, filtered, us_jobs, recent, known_keys,
                 new_jobs, db, result, hist_vars, fn_vars, comp_vars>>

RECURSIVE collect_exceptions_uncounted(_, _, _)
\* collect with a task that ended with an exception left out of both counts
collect_exceptions_uncounted(results, n, acc) ==
  IF n > Len(results) THEN acc
  ELSE LET r == results[n] IN
       collect_exceptions_uncounted(results, n + 1,
         IF r.raised
         THEN [acc EXCEPT !.errors = Append(@, <<r.exc>>)]
         ELSE IF r.error # ""
         THEN [acc EXCEPT !.errors = Append(@, <<r.name, r.error>>), !.failed = @ + 1]
         ELSE [acc EXCEPT !.succeeded = @ + 1, !.all_jobs = @ \o r.jobs])

RECURSIVE collect(_, _, _)
\* run_cycle, lines 244-256: the loop over the results of gather
collect(results, n, acc) ==
  IF n > Len(results) THEN acc
  ELSE LET r == results[n] IN
       collect(results, n + 1,
         IF r.raised
         THEN [acc EXCEPT !.errors = Append(@, <<r.exc>>), !.failed = @ + 1]
         ELSE IF r.error # ""
         THEN [acc EXCEPT !.errors = Append(@, <<r.name, r.error>>), !.failed = @ + 1]
         ELSE [acc EXCEPT !.succeeded = @ + 1, !.all_jobs = @ \o r.jobs])

\* Gather going on as soon as one task is done, with the results so far
Gather_without_waiting ==
  /\ pc = "fetch"
  /\ \E i \in DOMAIN tasks : tasks[i].st = "done"
  /\ LET done == SelectSeq(tasks, LAMBDA t : t.st = "done")
         acc == collect([i \in DOMAIN done |-> done[i].out], 1,
                        [all_jobs |-> <<>>, errors |-> <<>>, succeeded |-> 0, failed |-> 0])
     IN  /\ all_jobs' = acc.all_jobs
         /\ errors' = acc.errors
         /\ succeeded' = acc.succeeded
         /\ failed' = acc.failed
  /\ pc' = "boards"
  /\ UNCHANGED <<jobs_file, registry_file, clock, cycles, window_hours, registry, tasks, permits,
                 filtered, us_jobs, recent, known_keys, new_jobs, db, result,
                 hist_vars, fn_vars, comp_vars>>

\* run_cycle, lines 242-256: gather returns once every task is done
Gather ==
  /\ pc = "fetch"
  /\ \A i \in DOMAIN tasks : tasks[i].st = "done"
  /\ LET acc == collect([i \in DOMAIN tasks |-> tasks[i].out], 1,
                        [all_jobs |-> <<>>, errors |-> <<>>, succeeded |-> 0, failed |-> 0])
     IN  /\ all_jobs' = acc.all_jobs
         /\ errors' = acc.errors
         /\ succeeded' = acc.succeeded
         /\ failed' = acc.failed
  /\ pc' = "boards"
  /\ UNCHANGED <<jobs_file, registry_file, clock, cycles, window_hours, registry, tasks, permits,
                 filtered, us_jobs, recent, known_keys, new_jobs, db, result,
                 hist_vars, fn_vars, comp_vars>>

\* run_cycle, lines 259-275: the job boards, then the aggregators, one
\* adapter after the other
FetchBoardsAndAggregators(x) ==
  /\ pc = "boards"
  /\ LET b == fetch_all_job_boards(x.boards)
         a == fetch_all_aggregators(x.aggregators)
     IN  /\ all_jobs' = all_jobs \o b.jobs \o a.jobs
         /\ errors' = errors \o b.errors \o a.errors
  /\ pc' = "filter"
  /\ side_exchange' = x
  /\ UNCHANGED <<jobs_file, registry_file, clock, cycles, window_hours, registry, tasks,
                 permits, succeeded, failed, filtered, us_jobs, recent, known_keys,
                 new_jobs, db, result, first_stored, keys_at_start, history_at_start,
                 fn_vars, comp_vars>>

RECURSIVE role_filter_loop_keep_unmatched(_, _)
\* role_filter_loop keeping the jobs that match no keyword
role_filter_loop_keep_unmatched(jobs, acc) ==
  IF jobs = <<>> THEN acc
  ELSE LET job == Head(jobs)
           cats == matches_target_role(job.title)
       IN  role_filter_loop_keep_unmatched(Tail(jobs),
             Append(acc, [job EXCEPT !.keywords_matched = cats]))

\* run_cycle, lines 283-288: the role filter stage
RECURSIVE role_filter_loop(_, _)
role_filter_loop(jobs, acc) ==
  IF jobs = <<>> THEN acc
  ELSE LET job == Head(jobs)
           cats == matches_target_role(job.title)
       IN  role_filter_loop(Tail(jobs),
             IF cats # {} THEN Append(acc, [job EXCEPT !.keywords_matched = cats])
             ELSE acc)

role_filter_stage(jobs) == role_filter_loop(jobs, <<>>)

\* run_cycle, line 294
us_filter_stage(jobs) == SelectSeq(jobs, LAMBDA j : is_us_location(j.location))

\* window_filter_stage with the window fixed at 24 hours
window_filter_stage_24h(jobs, w, now) ==
  SelectSeq(jobs, LAMBDA j : is_within_window(j.date_posted, 24, now))

\* run_cycle, line 298
window_filter_stage(jobs, w, now) ==
  SelectSeq(jobs, LAMBDA j : is_within_window(j.date_posted, w, now))

RECURSIVE store_new_jobs_skip_last(_, _, _)
\* store_new_jobs leaving out the last job of the batch
store_new_jobs_skip_last(jobs_map, jobs, ts) ==
  IF Len(jobs) <= 1 THEN jobs_map
  ELSE LET job == [Head(jobs) EXCEPT !.first_seen = ts]
       IN  store_new_jobs_skip_last((dedup_key(job) :> job) @@ jobs_map, Tail(jobs), ts)

RECURSIVE store_new_jobs(_, _, _)
\* run_cycle, lines 310-312: stamp first_seen and put each new job into
\* db["jobs"] under its dedup key
store_new_jobs(jobs_map, jobs, ts) ==
  IF jobs = <<>> THEN jobs_map
  ELSE LET job == [Head(jobs) EXCEPT !.first_seen = ts]
       IN  store_new_jobs((dedup_key(job) :> job) @@ jobs_map, Tail(jobs), ts)

\* append_history that never trims
append_history_without_trim(history, run_entry) == Append(history, run_entry)

\* run_cycle, lines 324-328: append the entry, keep the last 200
append_history(history, run_entry) ==
  LET h == Append(history, run_entry)
  IN  IF Len(h) > HISTORY_CAP THEN SubSeq(h, Len(h) - HISTORY_CAP + 1, Len(h)) ELSE h

\* cap_errors that returns every error
cap_errors_uncapped(errs) == errs

\* errors[:20]
cap_errors(errs) == SubSeq(errs, 1, IF Len(errs) < ERRORS_CAP THEN Len(errs) ELSE ERRORS_CAP)

\* run_cycle, lines 279-329: no await from the end of the fetches to
\* save_jobs_db, so the three filters, the load of the database, the dedup and
\* the update of the loaded database are one step
\* an exception leaves one of the filter stages, and with it run_cycle
FilterRaises(exc) ==
  /\ pc' = "raised"
  /\ result' = Raised(exc, "filter")
  /\ UNCHANGED <<filtered, us_jobs, recent, known_keys, new_jobs, db>>

\* lines 301-329: load the database, dedup, store, append the run entry
DedupStore(f, u, r) ==
  LET loaded == load_known_jobs(jobs_file)
      known == DOMAIN loaded.jobs
      fresh == dedup_jobs(r, known)
      ts == clock
      run_entry == [timestamp |-> ts, fetched |-> Len(all_jobs), filtered |-> Len(f),
                    new |-> Len(fresh), succeeded |-> succeeded, failed |-> failed]
  IN  /\ filtered' = f
      /\ us_jobs' = u
      /\ recent' = r
      /\ known_keys' = known
      /\ new_jobs' = [i \in 1..Len(fresh) |-> [fresh[i] EXCEPT !.first_seen = ts]]
      /\ db' = [jobs |-> store_new_jobs(loaded.jobs, fresh, ts),
                run_history |-> append_history(loaded.run_history, run_entry),
                last_updated |-> ts]
      /\ pc' = "save"
      /\ UNCHANGED result

\* line 285: pattern.search(title) raises TypeError on a title that is not a
\* string; line 294: location.lower() raises AttributeError on a location
\* that is not a string; line 298: strptime raises TypeError on a date that
\* is not a string (a falsy value passes all three as the empty string does)
FilterDedupStore ==
  /\ pc = "filter"
  /\ IF \E n \in DOMAIN all_jobs : ~is_str(all_jobs[n].title)
     THEN FilterRaises("TypeError")
     ELSE LET f == role_filter_stage(all_jobs) IN
       IF \E n \in DOMAIN f : ~is_str(f[n].location)
       THEN FilterRaises("AttributeError")
       ELSE LET u == us_filter_stage(f) IN
         IF \E n \in DOMAIN u : u[n].date_posted.kind = "nonstr"
         THEN FilterRaises("TypeError")
         ELSE IF \E n \in DOMAIN u : is_within_window_raises(u[n].date_posted)
         THEN FilterRaises("OverflowError")
         ELSE DedupStore(f, u, window_filter_stage(u, window_hours, clock))
  /\ UNCHANGED <<jobs_file, registry_file, clock, cycles, window_hours, registry, tasks, permits,
                 all_jobs, errors, succeeded, failed, hist_vars, fn_vars, comp_vars>>

\* save_jobs_db, line 94: write_text opens the file for writing, which
\* truncates it
SaveOpen ==
  /\ pc = "save"
  /\ jobs_file' = PARTIAL
  /\ pc' = "writing"
  /\ UNCHANGED <<registry_file, clock, cycles, cycle_vars, hist_vars, fn_vars, comp_vars>>

\* save_jobs_db, line 94, then run_cycle, lines 333-346: the text is written
\* and the file closed; the cycle returns its result
SaveWrite ==
  /\ pc = "writing"
  /\ jobs_file' = ValidFile(db)
  /\ first_stored' =
       [k \in DOMAIN first_stored \cup DOMAIN db.jobs |->
          IF k \in DOMAIN first_stored THEN first_stored[k] ELSE db.jobs[k]]
  /\ result' = [kind |-> "result", new_jobs |-> new_jobs, total_fetched |-> Len(all_jobs),
                total_filtered |-> Len(filtered), total_new |-> Len(new_jobs),
                companies_succeeded |-> succeeded, companies_failed |-> failed,
                errors |-> cap_errors(errors)]
  /\ pc' = "returned"
  /\ UNCHANGED <<registry_file, clock, cycles, window_hours, registry, tasks, permits, all_jobs, errors,
                 succeeded, failed, filtered, us_jobs, recent, known_keys, new_jobs, db,
                 keys_at_start, history_at_start, side_exchange, fn_vars, comp_vars>>

\* save_jobs_db, line 94: the write fails (disk full) or the process dies
\* after the file was opened and before all of the text is on disk; run_cycle
\* does not return
SaveFail ==
  /\ pc = "writing"
  /\ pc' = "failed"
  /\ UNCHANGED <<jobs_file, registry_file, clock, cycles, cycle_vars, hist_vars, fn_vars, comp_vars>>

\* the caller's scheduler: the next cycle starts after this one has ended;
\* the locals of run_cycle are gone
EndCycle ==
  /\ pc \in {"returned", "failed", "raised"}
  /\ pc' = "idle"
  /\ clock' = clock + 1
  /\ window_hours' = 24 /\ registry' = <<>> /\ tasks' = <<>> /\ permits' = MAX_CONCURRENT
  /\ all_jobs' = <<>> /\ errors' = <<>> /\ succeeded' = 0 /\ failed' = 0
  /\ filtered' = <<>> /\ us_jobs' = <<>> /\ recent' = <<>> /\ known_keys' = {}
  /\ new_jobs' = <<>> /\ db' = EmptyDb /\ result' = NoResult
  /\ UNCHANGED <<jobs_file, registry_file, cycles, hist_vars, fn_vars, comp_vars>>

Next ==
  \/ \E w \in Windows : StartCycle(w)
  \/ \E i \in 1..2 : TaskEnter(i)
  \/ \E i \in 1..2, resp \in Responses : TaskAttempt(i, resp)
  \/ \E i \in 1..2 : TaskWake(i)
  \/ Gather
  \/ \E x \in SideExchanges : FetchBoardsAndAggregators(x)
  \/ FilterDedupStore
  \/ SaveOpen
  \/ SaveWrite
  \/ SaveFail
  \/ EndCycle

Spec == Init /\ [][Next]_vars


(***************************************************************************)
(* Community repositories (github_parser.py): the markdown-table parser    *)
(* and the two fetchers.                                                   *)
(***************************************************************************)

RECURSIVE split_loop(_, _, _, _)
split_loop(s, sep, cur, acc) ==
  IF s = <<>> THEN Append(acc, cur)
  ELSE IF Head(s) = sep THEN split_loop(Tail(s), sep, <<>>, Append(acc, cur))
  ELSE split_loop(Tail(s), sep, Append(cur, Head(s)), acc)

\* str.split(sep) for a separator of one character
split(s, sep) == split_loop(s, sep, <<>>, <<>>)

COMPANY_WORD == <<"c","o","m","p","a","n","y">>
EMPLOYER_WORD == <<"e","m","p","l","o","y","e","r">>
ROLE_WORD == <<"r","o","l","e">>
TITLE_WORD == <<"t","i","t","l","e">>
POSITION_WORD == <<"p","o","s","i","t","i","o","n">>
LOCATION_WORD == <<"l","o","c","a","t","i","o","n">>
CITY_WORD == <<"c","i","t","y">>
LINK_WORD == <<"l","i","n","k">>
URL_WORD == <<"u","r","l">>
APPLY_WORD == <<"a","p","p","l","y">>
APPLICATION_WORD == <<"a","p","p","l","i","c","a","t","i","o","n">>
DATE_WORD == <<"d","a","t","e">>
POSTED_WORD == <<"p","o","s","t","e","d">>
ADDED_WORD == <<"a","d","d","e","d">>
HTTP_WORD == <<"h","t","t","p">>
NEW_GRAD_POSITION == <<"N","e","w"," ","G","r","a","d"," ","P","o","s","i","t","i","o","n">>

\* line 194: [c.strip() for c in line.split("|")[1:-1]]
row_cells(line) ==
  LET parts == split(line, "|")
  IN  [i \in 1..(Len(parts) - 2) |-> strip(parts[i + 1])]

\* line 197: all(set(c) <= {"-", ":", " "} for c in cells)
is_separator(cells) ==
  \A i \in DOMAIN cells : \A k \in DOMAIN cells[i] : cells[i][k] \in {"-", ":", " "}

\* lines 204-213: the words that name a column, in the order of the elif chain
HEADER_WORDS ==
  << <<"company", {COMPANY_WORD, EMPLOYER_WORD}>>,
     <<"title", {ROLE_WORD, TITLE_WORD, POSITION_WORD}>>,
     <<"location", {LOCATION_WORD, CITY_WORD}>>,
     <<"url", {LINK_WORD, URL_WORD, APPLY_WORD, APPLICATION_WORD}>>,
     <<"date", {DATE_WORD, POSTED_WORD, ADDED_WORD}>> >>

\* the column a header cell names: the first branch of the elif chain one of
\* whose words is in the cell, "" when there is none
RECURSIVE column_of(_, _)
column_of(cl, n) ==
  IF n > Len(HEADER_WORDS) THEN ""
  ELSE IF \E k \in HEADER_WORDS[n][2] : Contains(cl, k) THEN HEADER_WORDS[n][1]
  ELSE column_of(cl, n + 1)

\* lines 202-213: header_indices after the loop over the cells; an index is
\* the position of the cell, counted from 1 (a later cell overwrites an earlier
\* one of the same column)
RECURSIVE detect_header(_, _, _)
detect_header(cells, i, header_indices) ==
  IF i > Len(cells) THEN header_indices
  ELSE LET col == column_of(lower(cells[i]), 1)
       IN  detect_header(cells, i + 1,
             IF col = "" THEN header_indices
             ELSE (col :> i) @@ header_indices)

\* the position of the first occurrence of character c in s at or after
\* position i, 0 when there is none
RECURSIVE find_char(_, _, _)
find_char(s, c, i) ==
  IF i > Len(s) THEN 0
  ELSE IF s[i] = c THEN i
  ELSE find_char(s, c, i + 1)

NoMatch == [found |-> FALSE]

\* re.search(r'\[([^\]]*)\]\(([^)]+)\)', s) from position i on: the leftmost
\* match, with its two groups and its span
RECURSIVE link_search(_, _)
link_search(s, i) ==
  LET open == find_char(s, "[", i) IN
  IF open = 0 THEN NoMatch
  ELSE LET close == find_char(s, "]", open + 1)
           paren == IF close # 0 /\ close < Len(s) /\ s[close + 1] = "("
                    THEN find_char(s, ")", close + 2) ELSE 0
       IN  IF paren > close + 2
           THEN [found |-> TRUE, start |-> open, end |-> paren,
                 text |-> SubSeq(s, open + 1, close - 1),
                 target |-> SubSeq(s, close + 2, paren - 1)]
           ELSE link_search(s, open + 1)

\* re.sub(r'\[([^\]]*)\]\([^)]+\)', r'\1', s)
RECURSIVE link_sub(_)
link_sub(s) ==
  LET m == link_search(s, 1) IN
  IF ~m.found THEN s
  ELSE SubSeq(s, 1, m.start - 1) \o m.text \o link_sub(SubSeq(s, m.end + 1, Len(s)))

\* lines 234-239: the first cell whose first link holds "http"
RECURSIVE link_in_cells(_, _)
link_in_cells(cells, i) ==
  IF i > Len(cells) THEN <<>>
  ELSE LET m == link_search(cells[i], 1) IN
       IF m.found /\ Contains(m.target, HTTP_WORD) THEN m.target
       ELSE link_in_cells(cells, i + 1)

\* source_ats of a record of a repository: f"github-{label}"
GithubSource(label) == <<"g","i","t","h","u","b","-">> \o label

\* lines 248-249: the row is marked closed
marked_closed(line) == Contains(line, <<"~","~">>) \/ Contains(line, <<LOCK_GLYPH>>)

\* lines 219-260: the record of a data row; kind "skip" when the row gives
\* none, "raise" when a cell of the company or title column is missing
\* (IndexError)
data_row(line, cells, hi, label) ==
  IF Len(cells) < 2 THEN [kind |-> "skip"]
  ELSE IF "company" \in DOMAIN hi /\ hi["company"] > Len(cells) THEN [kind |-> "raise"]
  ELSE IF "title" \in DOMAIN hi /\ hi["title"] > Len(cells) THEN [kind |-> "raise"]
  ELSE
    LET company0 == IF "company" \in DOMAIN hi THEN cells[hi["company"]] ELSE <<>>
        title0 == IF "title" \in DOMAIN hi THEN cells[hi["title"]] ELSE <<>>
        location == IF "location" \in DOMAIN hi /\ Len(cells) >= hi["location"]
                    THEN cells[hi["location"]] ELSE L_UNKNOWN
        date == IF "date" \in DOMAIN hi /\ Len(cells) >= hi["date"]
                THEN cells[hi["date"]] ELSE <<>>
        url_cell == IF "url" \in DOMAIN hi /\ Len(cells) >= hi["url"]
                    THEN cells[hi["url"]] ELSE <<>>
        url_match == link_search(url_cell, 1)
        job_url0 == IF url_match.found THEN url_match.target ELSE <<>>
        job_url == IF job_url0 = <<>> THEN link_in_cells(cells, 1) ELSE job_url0
        company == strip(link_sub(company0))
        title == strip(link_sub(title0))
    IN  IF company = <<>> /\ title = <<>> THEN [kind |-> "skip"]
        ELSE IF marked_closed(line) THEN [kind |-> "skip"]
        ELSE [kind |-> "job",
              job |-> NormalizedJob(IF title # <<>> THEN title ELSE NEW_GRAD_POSITION,
                                    IF company # <<>> THEN company ELSE C_UNKNOWN,
                                    location, job_url,
                                    IF date = <<>> THEN EmptyDate ELSE TextDate(date),
                                    GithubSource(label),
                                    company \o <<"-">> \o title \o <<"-">> \o label)]

NoHeader == <<>>

\* _parse_markdown_table keeping the rows marked closed
RECURSIVE parse_loop_keep_closed(_, _, _, _, _, _)
parse_loop_keep_closed(lines, n, label, in_table, hi, acc) ==
  IF n > Len(lines) THEN acc
  ELSE LET line == strip(lines[n]) IN
    IF line = <<>> \/ line[1] # "|"
    THEN parse_loop_keep_closed(lines, n + 1, label, FALSE, NoHeader, acc)
    ELSE LET cells == row_cells(line) IN
      IF is_separator(cells) THEN parse_loop_keep_closed(lines, n + 1, label, in_table, hi, acc)
      ELSE IF ~in_table
      THEN LET found == detect_header(cells, 1, hi)
           IN  parse_loop_keep_closed(lines, n + 1, label, DOMAIN found # {}, found, acc)
      ELSE LET r == data_row(<<>>, cells, hi, label) IN
           IF r.kind = "raise" THEN [raised |-> TRUE, exc |-> "IndexError"]
           ELSE IF r.kind = "skip" THEN parse_loop_keep_closed(lines, n + 1, label, in_table, hi, acc)
           ELSE parse_loop_keep_closed(lines, n + 1, label, in_table, hi,
                  [acc EXCEPT !.jobs = Append(@, r.job), !.rows = Append(@, n)])

\* _parse_markdown_table, lines 186-260: the loop over the lines from line n
\* on; acc.rows records the line each job was made from
RECURSIVE parse_loop(_, _, _, _, _, _)
parse_loop(lines, n, label, in_table, hi, acc) ==
  IF n > Len(lines) THEN acc
  ELSE LET line == strip(lines[n]) IN
    IF line = <<>> \/ line[1] # "|"
    THEN parse_loop(lines, n + 1, label, FALSE, NoHeader, acc)
    ELSE LET cells == row_cells(line) IN
      IF is_separator(cells) THEN parse_loop(lines, n + 1, label, in_table, hi, acc)
      ELSE IF ~in_table
      THEN LET found == detect_header(cells, 1, hi)
           IN  parse_loop(lines, n + 1, label, DOMAIN found # {}, found, acc)
      ELSE LET r == data_row(line, cells, hi, label) IN
           IF r.kind = "raise" THEN [raised |-> TRUE, exc |-> "IndexError"]
           ELSE IF r.kind = "skip" THEN parse_loop(lines, n + 1, label, in_table, hi, acc)
           ELSE parse_loop(lines, n + 1, label, in_table, hi,
                  [acc EXCEPT !.jobs = Append(@, r.job), !.rows = Append(@, n)])

\* _parse_markdown_table(markdown, label), markdown given as its lines
\* (markdown.split("\n"))
_parse_markdown_table(lines, label) ==
  parse_loop(lines, 1, label, FALSE, NoHeader, [raised |-> FALSE, jobs |-> <<>>, rows |-> <<>>])

\* SimplifyJobsParser.REPOS and MarkdownTableParser.REPOS, by their labels
SIMPLIFY_REPOS == <<LABEL_NEW_GRAD, LABEL_INTERNSHIP>>
MARKDOWN_REPOS == <<LABEL_AI_NEWGRAD, LABEL_SWE_NEWGRAD>>

\* SimplifyJobsParser.fetch, lines 60-115, for one repository: a status other
\* than 200, an exception and a body that is no list give nothing; hidden and
\* inactive listings are skipped
simplify_repo_jobs(label, resp) ==
  IF resp.kind # "ok" THEN <<>>
  ELSE LET shown == SelectSeq(resp.postings,
                      LAMBDA p : "is_visible" \in DOMAIN p => p.is_visible)
       IN  [i \in 1..Len(shown) |->
              NormalizedJob(shown[i].title, C_GLOBEX, shown[i].location, shown[i].url,
                            shown[i].date, GithubSource(label), shown[i].id)]

\* MarkdownTableParser.fetch, lines 159-172, for one repository: an exception
\* of the parser is swallowed with the rest
markdown_repo_jobs(label, resp) ==
  IF resp.kind # "text" THEN <<>>
  ELSE LET parsed == _parse_markdown_table(resp.text, label)
       IN  IF parsed.raised THEN <<>> ELSE parsed.jobs

\* fetch_all_github_repos(session): resps are the exchanges of the two JSON
\* repositories, then of the two markdown repositories; neither fetcher
\* raises, so the error list stays empty
fetch_all_github_repos(resps) ==
  [jobs |-> simplify_repo_jobs(SIMPLIFY_REPOS[1], resps[1])
              \o simplify_repo_jobs(SIMPLIFY_REPOS[2], resps[2])
              \o markdown_repo_jobs(MARKDOWN_REPOS[1], resps[3])
              \o markdown_repo_jobs(MARKDOWN_REPOS[2], resps[4]),
   errors |-> <<>>]

(***************************************************************************)
(* Direct calls of the pure functions, on inputs drawn from bounded sets.  *)
(***************************************************************************)
MaxTitleLen == 4
MaxJobs == 3

T_ML_ENGINEER_TRAIL == <<"M","L"," ","E","n","g","i","n","e","e","r"," ">>
T_ML_ENGINEER_LEAD == <<" ","M","L"," ","E","n","g","i","n","e","e","r">>
C_ACME_UC == <<"A","C","M","E">>
C_ACME_TRAIL == <<"A","c","m","e"," ">>
L_REMOTE_TRAIL == <<"R","e","m","o","t","e","\t">>
L_REMOTE_LEAD == <<" ","R","e","m","o","t","e">>
T_AI_RESEARCH_ENGINEER == <<"A","I"," ","R","e","s","e","a","r","c","h"," ","E","n","g","i","n","e","e","r">>
T_SENIOR_SRE == <<"S","e","n","i","o","r"," ","S","R","E">>
T_DS_ML == <<"D","a","t","a"," ","S","c","i","e","n","t","i","s","t"," ","/"," ","m","l"," ","e","n","g","i","n","e","e","r">>
T_DEEP == <<"D","E","E","P"," ","L","E","A","R","N","I","N","G"," ","i","n","t","e","r","n">>
T_NURSE == <<"N","u","r","s","e">>

TitleAlphabet == {"s", "S", "r", "R", "e", "E", " "}

\* every string over TitleAlphabet of at most MaxTitleLen characters, and
\* some titles as the sources publish them
Titles ==
  UNION {[1..n -> TitleAlphabet] : n \in 0..MaxTitleLen}
    \cup {T_ML_ENGINEER, T_ML_ENGINEER_LC, T_SOFTWARE_ENGINEER, T_DATA_ENGINEER,
          T_DATA_SCIENTIST, T_CHEF, T_AI_RESEARCH_ENGINEER, T_SENIOR_SRE, T_DS_ML,
          T_DEEP, T_NURSE}

JobTitled(t) == NormalizedJob(t, C_ACME, L_REMOTE, "u1", EmptyDate, "greenhouse", "1")

KeyTitles == {T_ML_ENGINEER, T_ML_ENGINEER_LC, T_ML_ENGINEER_TRAIL, T_ML_ENGINEER_LEAD,
              T_DATA_ENGINEER}
KeyCompanies == {C_ACME, C_ACME_UC, C_ACME_TRAIL, C_INITECH}
KeyLocations == {L_REMOTE, L_REMOTE_LC, L_REMOTE_TRAIL, L_REMOTE_LEAD, L_AUSTIN}

\* two records that differ in url, source_ats, job_id and date_posted
KeyJobsA ==
  {NormalizedJob(t, c, l, "u1", IsoDate(T_NOW), "greenhouse", "1") :
     t \in KeyTitles, c \in KeyCompanies, l \in KeyLocations}
KeyJobsB ==
  {NormalizedJob(t, c, l, "u2", EmptyDate, "lever", "2") :
     t \in KeyTitles, c \in KeyCompanies, l \in KeyLocations}

J_A == NormalizedJob(T_ML_ENGINEER, C_ACME, L_REMOTE, "u1", IsoDate(T_NOW), "greenhouse", "1")
J_A2 == NormalizedJob(T_ML_ENGINEER_LC, C_ACME, L_REMOTE_LC, "u2", EmptyDate, "lever", "2")
J_B == NormalizedJob(T_SOFTWARE_ENGINEER, C_ACME, L_AUSTIN, "u3", EmptyDate, "greenhouse", "3")
J_C == NormalizedJob(T_DATA_ENGINEER, C_INITECH, L_LONDON, "u5", EmptyDate, "ashby", "5")
DedupPool == {J_A, J_A2, J_B, J_C}
DedupLists == UNION {[1..n -> DedupPool] : n \in 0..MaxJobs}
KnownKeySets == SUBSET {dedup_key(J_A), dedup_key(J_B), dedup_key(J_C)}

\* locations for direct calls of is_us_location
L_PARIS == <<"P","a","r","i","s">>
L_LONDON_UC == <<"L","O","N","D","O","N">>
L_TORONTO == <<"T","o","r","o","n","t","o",","," ","C","a","n","a","d","a">>
L_NEW_YORK == <<"N","e","w"," ","Y","o","r","k",","," ","N","Y">>
L_REMOTE_INDIA == <<"R","e","m","o","t","e"," ","-"," ","I","n","d","i","a">>
L_NA == <<"N","/","A">>
L_BLANK == <<" "," ">>
L_MARS_BASE == <<" ","M","a","r","s"," ","B","a","s","e"," ","1"," ">>
L_LONDON_OH == <<"L","o","n","d","o","n",","," ","O","H">>
LocationAlphabet == {"t", "X", "i", "n", " "}
Locations ==
  UNION {[1..n -> LocationAlphabet] : n \in 0..MaxTitleLen}
    \cup {L_REMOTE, L_REMOTE_LC, L_AUSTIN, L_LONDON, L_UNKNOWN, L_PARIS, L_LONDON_UC,
          L_TORONTO, L_NEW_YORK, L_REMOTE_INDIA, L_NA, L_BLANK, L_MARS_BASE,
          L_LONDON_OH}

\* date strings for direct calls of is_within_window: absolute dates around
\* the cutoffs of the windows, and phrases
D_3_HOURS_AGO == <<"3"," ","h","o","u","r","s"," ","a","g","o">>
D_TODAY == <<"T","o","d","a","y">>
D_1_DAY_AGO == <<"1"," ","d","a","y"," ","a","g","o">>
D_2_DAYS_AGO == <<"P","o","s","t","e","d"," ","2"," ","D","a","y","s"," ","A","g","o">>
D_30_PLUS_DAYS == <<"3","0","+"," ","D","a","y","s"," ","A","g","o">>
D_1_MONTH_AGO == <<"1"," ","m","o","n","t","h"," ","a","g","o">>
D_2_YEARS_AGO == <<"2"," ","y","e","a","r","s"," ","a","g","o">>
D_JUNK == <<"s","o","o","n">>
D_MONTH_AND_DAY == <<"1"," ","m","o","n","t","h",","," ","0"," ","d","a","y","s">>
CallWindows == Windows \cup {720}
DateInstants ==
  {CLOCK0 - w * TICKS_PER_HOUR + d : w \in CallWindows, d \in {-1, 0, 1}}
    \cup {CLOCK0 - 1, CLOCK0, CLOCK0 + 1}
DateStrings ==
  {EmptyDate, HugeDate} \cup {IsoDate(i) : i \in DateInstants}
    \cup {NumDate(u, i) : u \in {"s", "ms"}, i \in DateInstants}
    \cup {TextDate(s) : s \in {D_3_HOURS_AGO, D_TODAY, D_1_DAY_AGO, D_2_DAYS_AGO,
                                D_30_PLUS_DAYS, D_1_MONTH_AGO, D_2_YEARS_AGO, D_JUNK,
                                D_MONTH_AND_DAY}}
\* documents for direct calls of _parse_markdown_table
MaxLines == 4
MarkdownLines ==
  {MD_HEADER, MD_HEADER_WIDE, MD_SEPARATOR, MD_ROW_ACME, MD_ROW_LINKED, MD_ROW_SHORT,
   MD_ROW_STRUCK, MD_ROW_LOCKED, MD_TEXT, MD_BLANK}
Markdowns == UNION {[1..n -> MarkdownLines] : n \in 0..MaxLines}

MarkdownCalls ==
  {[fn |-> "_parse_markdown_table", lines |-> d, label |-> LABEL_AI_NEWGRAD] : d \in Markdowns}


Calls ==
  {[fn |-> "dedup_key", a |-> a, b |-> b] : a \in KeyJobsA, b \in KeyJobsB}
    \cup {[fn |-> "dedup_jobs", new_jobs |-> l, known_keys |-> k] :
            l \in DedupLists, k \in KnownKeySets}
    \cup {[fn |-> "matches_target_role", title |-> t] : t \in Titles}
    \cup {[fn |-> "role_filter_stage", jobs |-> <<JobTitled(t)>>] : t \in Titles}
    \cup {[fn |-> "is_us_location", location |-> l] : l \in Locations}
    \cup {[fn |-> "is_within_window", date_str |-> d, window_hours |-> w] :
            d \in DateStrings, w \in CallWindows}
    \cup MarkdownCalls

Value(v) == [kind |-> "value", value |-> v]

InitFn ==
  /\ jobs_file = ABSENT
  /\ registry_file = NO_REGISTRY
  /\ clock = CLOCK0
  /\ cycles = 0
  /\ pc = "fn"
  /\ CycleIdle
  /\ first_stored = <<>>
  /\ keys_at_start = {}
  /\ history_at_start = <<>>
  /\ side_exchange = NoExchange
  /\ call \in Calls
  /\ ret = NoResult
  /\ ComponentsOff

Returns(fn, v) ==
  /\ pc = "fn"
  /\ call.fn = fn
  /\ ret = NoResult
  /\ ret' = Value(v)
  /\ UNCHANGED <<jobs_file, registry_file, clock, cycles, pc, cycle_vars, hist_vars, call, comp_vars>>

\* a.dedup_key and b.dedup_key
Call_dedup_key ==
  call.fn = "dedup_key" /\ Returns("dedup_key", <<dedup_key(call.a), dedup_key(call.b)>>)

Call_dedup_jobs ==
  call.fn = "dedup_jobs" /\ Returns("dedup_jobs", dedup_jobs(call.new_jobs, call.known_keys))

Call_matches_target_role ==
  call.fn = "matches_target_role"
    /\ Returns("matches_target_role", matches_target_role(call.title))

Call_role_filter_stage ==
  call.fn = "role_filter_stage"
    /\ Returns("role_filter_stage", role_filter_stage(call.jobs))

\* Call_is_us_location with the include patterns consulted before the
\* exclude patterns
Call_is_us_location_include_first ==
  /\ call.fn = "is_us_location"
  /\ Returns("is_us_location",
       IF \E n \in DOMAIN _INCLUDE :
            Len(_INCLUDE[n]) > 2 /\ Contains(strip(lower(call.location)), _INCLUDE[n])
       THEN TRUE
       ELSE is_us_location(call.location))

Call_is_us_location ==
  call.fn = "is_us_location" /\ Returns("is_us_location", is_us_location(call.location))

Call_is_within_window ==
  /\ call.fn = "is_within_window"
  /\ IF is_within_window_raises(call.date_str)
     THEN /\ pc = "fn"
          /\ ret = NoResult
          /\ ret' = Raised("OverflowError", "is_within_window")
          /\ UNCHANGED <<jobs_file, registry_file, clock, cycles, pc, cycle_vars, hist_vars,
                         call, comp_vars>>
     ELSE Returns("is_within_window",
                  is_within_window(call.date_str, call.window_hours, clock))

Call_parse_markdown_table ==
  call.fn = "_parse_markdown_table"
    /\ Returns("_parse_markdown_table", _parse_markdown_table(call.lines, call.label))

NextFn ==
  \/ Call_dedup_key
  \/ Call_dedup_jobs
  \/ Call_matches_target_role
  \/ Call_role_filter_stage
  \/ Call_is_us_location
  \/ Call_is_within_window
  \/ Call_parse_markdown_table

SpecFn == InitFn /\ [][NextFn]_vars


(***************************************************************************)
(* Cycles over a registry larger than the semaphore, on a database whose   *)
(* run history is at its cap.                                              *)
(***************************************************************************)

\* a registry of MAX_CONCURRENT + 1 entries; the first one makes its adapter
\* raise, so that its task goes through the retries
LARGE_REGISTRY ==
  RegistryList([i \in 1..(MAX_CONCURRENT + 1) |-> IF i = 1 THEN E_BAD_WORKDAY ELSE E_ACME])

\* a registry of which more than ERRORS_CAP entries fail: the first one
\* after its retries, the next ERRORS_CAP + 1 for want of a slug
LARGE_BROKEN_REGISTRY ==
  RegistryList([i \in 1..(MAX_CONCURRENT + 1) |->
                  IF i = 1 THEN E_BAD_WORKDAY
                  ELSE IF i <= ERRORS_CAP + 2 THEN E_NO_SLUG ELSE E_ACME])

\* the run history that n earlier cycles have left, one tick apart
EarlierHistory(n) ==
  [i \in 1..n |-> [timestamp |-> CLOCK0 - 1 - n + i, fetched |-> i % 3, filtered |-> 0,
                   new |-> 0, succeeded |-> MAX_CONCURRENT, failed |-> 1]]

DB_LONG_HISTORY(n) ==
  [jobs |-> (dedup_key(J_STORED) :> J_STORED),
   last_updated |-> CLOCK0 - 1,
   run_history |-> EarlierHistory(n)]

\* the answer of every upstream of the large registry
LargeResponses == {HTTP_ERROR}

InitLarge ==
  /\ jobs_file \in {ValidFile(DB_LONG_HISTORY(HISTORY_CAP - 1)), ValidFile(DB_LONG_HISTORY(HISTORY_CAP))}
  /\ registry_file \in {LARGE_REGISTRY, LARGE_BROKEN_REGISTRY}
  /\ clock = CLOCK0
  /\ cycles = 0
  /\ pc = "idle"
  /\ CycleIdle
  /\ first_stored = load_known_jobs(jobs_file).jobs
  /\ keys_at_start = {}
  /\ history_at_start = <<>>
  /\ side_exchange = NoExchange
  /\ call = NoCall /\ ret = NoResult
  /\ ComponentsOff

\* task i is the first of the tasks in state st
FirstIn(i, st) ==
  /\ i \in DOMAIN tasks
  /\ tasks[i].st = st
  /\ \A k \in 1..(i - 1) : tasks[k].st # st

\* task i is the last of the tasks in state st
LastIn(i, st) ==
  /\ i \in DOMAIN tasks
  /\ tasks[i].st = st
  /\ \A k \in (i + 1)..Len(tasks) : tasks[k].st # st

\* gather starts the tasks in the order of the registry, and the waiters of
\* the semaphore are woken first in, first out (line 184)
EnterInOrder == \E i \in 1..(MAX_CONCURRENT + 1) : FirstIn(i, "pending") /\ TaskEnter(i)

\* a task is ready to enter the semaphore: the event loop runs the ready
\* tasks before it polls the sockets
SomeTaskReady ==
  \E i \in DOMAIN tasks :
    tasks[i].st = "pending" /\ (registry[i].slug = "missing" \/ permits > 0)

\* the exchange of the first running task, or of the last one, ends
AttemptEnds ==
  \E i \in 1..(MAX_CONCURRENT + 1), resp \in LargeResponses :
    /\ ~SomeTaskReady
    /\ FirstIn(i, "running") \/ LastIn(i, "running")
    /\ TaskAttempt(i, resp)

SleepEnds == \E i \in 1..(MAX_CONCURRENT + 1) : TaskWake(i)

NextLarge ==
  \/ \E w \in Windows : StartCycle(w)
  \/ EnterInOrder
  \/ AttemptEnds
  \/ SleepEnds
  \/ Gather
  \/ \E x \in SideExchanges : FetchBoardsAndAggregators(x)
  \/ FilterDedupStore
  \/ SaveOpen
  \/ SaveWrite
  \/ SaveFail
  \/ EndCycle

SpecLarge == InitLarge /\ [][NextLarge]_vars

\* run_cycle, lines 259-346, goes from one stage to the next: the boards and
\* aggregators answer, the filters and the write are straight-line code
StagePassed ==
  /\ pc \in {"boards", "filter", "save", "writing"}
  /\ pc' \in {"filter", "save", "writing", "returned", "failed", "raised"}
  /\ pc' # pc

\* the event loop runs every coroutine that is ready (the waiters of the
\* semaphore first in, first out), every adapter call returns or raises
\* (ClientTimeout), every sleep ends and run_cycle runs on after gather
SpecLargeFair ==
  /\ SpecLarge
  /\ WF_vars(EnterInOrder) /\ WF_vars(AttemptEnds) /\ WF_vars(SleepEnds) /\ WF_vars(Gather)
  /\ WF_pc(StagePassed)

(***************************************************************************)
(* WorkdayAdapter.fetch (ats_adapters.py): the pagination loop.            *)
(***************************************************************************)
MAX_PAGES == 10
PAGE_LIMIT == 20

ingest_vars == <<jobs_file, registry_file, clock, cycles, pc, cycle_vars, hist_vars, fn_vars>>

\* no cycle and no direct call runs
IngestOff ==
  /\ jobs_file = ABSENT
  /\ registry_file = NO_REGISTRY
  /\ clock = CLOCK0
  /\ cycles = 0
  /\ pc = "off"
  /\ CycleIdle
  /\ first_stored = <<>>
  /\ keys_at_start = {}
  /\ history_at_start = <<>>
  /\ side_exchange = NoExchange
  /\ call = NoCall /\ ret = NoResult

\* data.get("total", 0): a number, or a value that is none (null, a string)
Total(n) == [num |-> TRUE, v |-> n]
TOTAL_NOT_A_NUMBER == [num |-> FALSE]
\* a 200 answer of the search endpoint: the number of jobPostings of the page
\* and the total it reports
Page(postings, total) == [kind |-> "page", postings |-> postings, total |-> total]

\* the totals an upstream may report, and the sizes of its pages
WdTotals == {Total(0), Total(PAGE_LIMIT), Total(2 * PAGE_LIMIT + 5),
             Total(MAX_PAGES * PAGE_LIMIT * 5), TOTAL_NOT_A_NUMBER}
WdPageSizes == {0, 1, PAGE_LIMIT}
WdResponses ==
  {Page(k, t) : k \in WdPageSizes, t \in WdTotals} \cup {HTTP_ERROR, TIMEOUT, GARBLED}

\* fetch was called with a slug of three parts: lines 310-313
WdCalled == [pc |-> "loop", offset |-> 0, requests |-> 0, all_jobs |-> 0, out |-> 0]

InitWd ==
  /\ IngestOff
  /\ wd = WdCalled
  /\ ut = OFF /\ bot = OFF /\ two = OFF

\* the while test with no ceiling on the pages
WdLoopTest_no_ceiling ==
  /\ wd.pc = "loop"
  /\ wd.requests <= MAX_PAGES
  /\ wd' = [wd EXCEPT !.pc = "awaiting", !.requests = @ + 1]
  /\ UNCHANGED <<ingest_vars, ut, bot, two>>

\* lines 315-320: the while test; the request of the page at offset is
\* posted, or the loop ends and fetch returns all_jobs (line 363)
WdLoopTest ==
  /\ wd.pc = "loop"
  /\ IF wd.offset < MAX_PAGES * PAGE_LIMIT
     THEN wd' = [wd EXCEPT !.pc = "awaiting", !.requests = @ + 1]
     ELSE wd' = [wd EXCEPT !.pc = "returned", !.out = wd.all_jobs]
  /\ UNCHANGED <<ingest_vars, ut, bot, two>>

\* lines 320-365: the exchange ends (ClientTimeout(total=30) bounds it) with
\* resp. A status other than 200 and an empty page break the loop; an
\* exception (of the transport, of resp.json(), of the comparison with a
\* total that is no number) makes fetch return []; else the records of the
\* page are appended and offset moves on by 20
WdResponse(resp) ==
  /\ wd.pc = "awaiting"
  /\ IF resp.kind = "http_error"
     THEN wd' = [wd EXCEPT !.pc = "returned", !.out = wd.all_jobs]
     ELSE IF resp.kind \in {"timeout", "garbled"}
     THEN wd' = [wd EXCEPT !.pc = "returned", !.out = 0]
     ELSE IF resp.postings = 0
     THEN wd' = [wd EXCEPT !.pc = "returned", !.out = wd.all_jobs]
     ELSE IF ~resp.total.num
     THEN wd' = [wd EXCEPT !.pc = "returned", !.out = 0, !.all_jobs = @ + resp.postings]
     ELSE IF wd.offset + PAGE_LIMIT >= resp.total.v
     THEN wd' = [wd EXCEPT !.pc = "returned", !.offset = @ + PAGE_LIMIT,
                           !.all_jobs = @ + resp.postings,
                           !.out = wd.all_jobs + resp.postings]
     ELSE wd' = [wd EXCEPT !.pc = "loop", !.offset = @ + PAGE_LIMIT,
                           !.all_jobs = @ + resp.postings]
  /\ UNCHANGED <<ingest_vars, ut, bot, two>>

NextWd ==
  \/ WdLoopTest
  \/ \E resp \in WdResponses : WdResponse(resp)

SpecWd == InitWd /\ [][NextWd]_vars

\* the loop runs on and every exchange ends
SpecWdFair == SpecWd /\ WF_vars(NextWd)

(***************************************************************************)
(* scripts/utils: _atomic_write, the job store (storage_manager.py) and    *)
(* the checkpoint (memory_manager.py).                                     *)
(***************************************************************************)
STORE_HISTORY_CAP == 100

\* bound of the model: the calls of store_jobs and update_checkpoint
MaxCalls == 2

\* a file of data/ or memory/: absent, or holding a text in full; CORRUPT is
\* a text that is no JSON, JSON_LIST a JSON document that is no object
FileWith(content) == [state |-> "valid", content |-> content]
CORRUPT == [state |-> "corrupt"]
JSON_LIST == [state |-> "list"]

\* a job as the scrapers hand it to store_jobs; <<>> stands for a missing or
\* empty field
StoreJob(job_id, url, title, location) ==
  [job_id |-> job_id, url |-> url, title |-> title, location |-> location,
   first_seen |-> 0]

\* _get_job_key(job): job_id, else url, else "title|location"
_get_job_key(job) ==
  IF job.job_id # <<>> THEN job.job_id
  ELSE IF job.url # <<>> THEN job.url
  ELSE job.title \o <<"|">> \o job.location

job_keys(jobs) == {_get_job_key(jobs[i]) : i \in DOMAIN jobs}

\* detect_duplicates(new_jobs, existing_jobs)[0]: the new jobs whose key is
\* not among the keys of the existing jobs
detect_duplicates(batch, existing_jobs) ==
  SelectSeq(batch, LAMBDA j : _get_job_key(j) \notin job_keys(existing_jobs))

\* detect_changes(new_jobs, existing_jobs)
detect_changes(batch, existing_jobs) ==
  LET new_keys == job_keys(batch)
      existing_keys == job_keys(existing_jobs)
      added == SelectSeq(batch, LAMBDA j : _get_job_key(j) \in new_keys \ existing_keys)
      removed == SelectSeq(existing_jobs,
                           LAMBDA j : _get_job_key(j) \in existing_keys \ new_keys)
  IN  [new_count |-> Len(added),
       duplicate_count |-> Cardinality(new_keys \cap existing_keys),
       removed_count |-> Len(removed),
       new_jobs |-> added, removed_jobs |-> removed]

EmptyStore == [jobs |-> <<>>, last_updated |-> 0, total_count |-> 0, run_history |-> <<>>]

\* load_stored_jobs(): a missing file and a file that is no JSON give the
\* empty store
load_stored_jobs(file) == IF file.state = "valid" THEN file.content ELSE EmptyStore

\* store_jobs, lines 158-195: the store that store_jobs writes
updated_db(store, batch, ts) ==
  LET existing == store.jobs
      changes == detect_changes(batch, existing)
      unique_new == detect_duplicates(batch, existing)
      stamped == [i \in DOMAIN unique_new |-> [unique_new[i] EXCEPT !.first_seen = ts]]
      merged == existing \o stamped
      run_entry == [timestamp |-> ts, scraped_count |-> Len(batch),
                    new_count |-> changes.new_count,
                    duplicate_count |-> changes.duplicate_count,
                    removed_count |-> changes.removed_count,
                    total_after |-> Len(merged)]
      history == Append(store.run_history, run_entry)
  IN  [jobs |-> merged, last_updated |-> ts, total_count |-> Len(merged),
       run_history |-> IF Len(history) > STORE_HISTORY_CAP
                       THEN SubSeq(history, Len(history) - STORE_HISTORY_CAP + 1, Len(history))
                       ELSE history]

\* load_checkpoint(): {} when the file is missing or no JSON
load_checkpoint(file) == IF file.state = "valid" THEN file.content ELSE <<>>

\* update_checkpoint keeping nothing of the previous checkpoint
merge_checkpoint_overwrite(previous, updates, now) ==
  ("last_updated" :> now) @@ updates

\* update_checkpoint, lines 139-140: {**previous, **updates}, then
\* last_updated
merge_checkpoint(previous, updates, now) ==
  ("last_updated" :> now) @@ updates @@ previous

\* the jobs of the scrapers
SJ_ID == StoreJob(<<"1">>, <<"u","1">>, <<"S","W","E">>, <<"N","Y">>)
SJ_ID_CHANGED == StoreJob(<<"1">>, <<"u","2">>, <<"S","R","E">>, <<"N","Y">>)
SJ_URL == StoreJob(<<>>, <<"u","3">>, <<"S","W","E">>, <<"N","Y">>)
SJ_BARE == StoreJob(<<>>, <<>>, <<"S","W","E">>, <<"N","Y">>)
StoreJobs == {SJ_ID, SJ_ID_CHANGED, SJ_URL, SJ_BARE}
MaxBatch == 2
Batches == UNION {[1..n -> StoreJobs] : n \in 0..MaxBatch}

\* the updates handed to update_checkpoint, and the checkpoint file before
NoFields == <<>>
CheckpointUpdates ==
  {NoFields, ("status" :> "running"), ("status" :> "done") @@ ("next_session" :> "deploy"),
   ("last_updated" :> 0)}
CP_EARLIER == ("status" :> "setup") @@ ("next_session" :> "scrape") @@ ("last_updated" :> 0)
CheckpointFiles == {ABSENT, FileWith(CP_EARLIER), CORRUPT, JSON_LIST}

JOBS_PATH == "google_jobs.json"
CHECKPOINT_PATH == "system_checkpoint.json"

NoOp == [fn |-> "none"]

\* ut.files: the two files; ut.tmp: the temporary file of the _atomic_write
\* going on; ut.op: the call going on, with the file it found (prev) and the
\* text it writes (content); ut.now: the clock; ut.calls: the calls so far
InitUt ==
  /\ IngestOff
  /\ wd = OFF /\ bot = OFF /\ two = OFF
  /\ \E cp \in CheckpointFiles :
       ut = [pc |-> "idle",
             files |-> (JOBS_PATH :> ABSENT) @@ (CHECKPOINT_PATH :> cp),
             tmp |-> ABSENT, op |-> NoOp, now |-> 1, calls |-> 0]

ut_frame == <<ingest_vars, wd, bot, two>>

\* _atomic_write, lines 26-29: mkstemp has made the temporary file
BeginWrite(fn, path, arg, content) ==
  ut' = [ut EXCEPT !.pc = "write", !.tmp = [state |-> "empty"],
                   !.op = [fn |-> fn, path |-> path, arg |-> arg, content |-> content,
                           prev |-> ut.files[path]],
                   !.calls = @ + 1]

\* store_jobs(new_jobs), lines 158-196, up to mkstemp in _atomic_write
StoreJobsCall(batch) ==
  /\ ut.pc = "idle"
  /\ ut.calls < MaxCalls
  /\ BeginWrite("store_jobs", JOBS_PATH, batch,
                updated_db(load_stored_jobs(ut.files[JOBS_PATH]), batch, ut.now))
  /\ UNCHANGED ut_frame

\* update_checkpoint(updates), lines 137-141, up to mkstemp in _atomic_write;
\* {**previous} raises TypeError when the file holds JSON that is no object
UpdateCheckpointCall(updates) ==
  /\ ut.pc = "idle"
  /\ ut.calls < MaxCalls
  /\ IF ut.files[CHECKPOINT_PATH].state = "list"
     THEN ut' = [ut EXCEPT !.pc = "raised", !.calls = @ + 1,
                           !.op = [fn |-> "update_checkpoint", path |-> CHECKPOINT_PATH,
                                   arg |-> updates, content |-> NoFields,
                                   prev |-> ut.files[CHECKPOINT_PATH]]]
     ELSE BeginWrite("update_checkpoint", CHECKPOINT_PATH, updates,
                     merge_checkpoint(load_checkpoint(ut.files[CHECKPOINT_PATH]), updates, ut.now))
  /\ UNCHANGED ut_frame

\* _atomic_write, lines 31-32 (48-49): the text is written to the temporary
\* file and the file closed
AwWrite ==
  /\ ut.pc = "write"
  /\ ut' = [ut EXCEPT !.pc = "closed", !.tmp = FileWith(ut.op.content)]
  /\ UNCHANGED ut_frame

\* lines 31, 36-43: os.write raises (disk full); the temporary file is
\* removed and the exception raised again
AwWriteFails ==
  /\ ut.pc = "write"
  /\ ut' = [ut EXCEPT !.pc = "raised", !.tmp = ABSENT]
  /\ UNCHANGED ut_frame

\* lines 33-34 (51-52): the target is removed when it exists
AwUnlink ==
  /\ ut.pc = "closed"
  /\ ut' = [ut EXCEPT !.pc = "rename", !.files[ut.op.path] = ABSENT]
  /\ UNCHANGED ut_frame

\* line 35 (53): the temporary file is renamed to the target; the caller
\* returns
AwRename ==
  /\ ut.pc = "rename"
  /\ ut' = [ut EXCEPT !.pc = "done", !.files[ut.op.path] = ut.tmp, !.tmp = ABSENT]
  /\ UNCHANGED ut_frame

\* lines 35-43: os.rename raises; the temporary file is removed and the
\* exception raised again
AwRenameFails ==
  /\ ut.pc = "rename"
  /\ ut' = [ut EXCEPT !.pc = "raised", !.tmp = ABSENT]
  /\ UNCHANGED ut_frame

\* the process dies inside _atomic_write; the files stay as they are
AwCrash ==
  /\ ut.pc \in {"write", "closed", "rename"}
  /\ ut' = [ut EXCEPT !.pc = "crashed"]
  /\ UNCHANGED ut_frame

\* the call is over (or the process starts again), time goes on
NextCall ==
  /\ ut.pc \in {"done", "raised", "crashed"}
  /\ ut' = [ut EXCEPT !.pc = "idle", !.op = NoOp, !.now = @ + 1]
  /\ UNCHANGED ut_frame

NextUt ==
  \/ \E b \in Batches : StoreJobsCall(b)
  \/ \E u \in CheckpointUpdates : UpdateCheckpointCall(u)
  \/ AwWrite
  \/ AwWriteFails
  \/ AwUnlink
  \/ AwRename
  \/ AwRenameFails
  \/ AwCrash
  \/ NextCall

SpecUt == InitUt /\ [][NextUt]_vars

(***************************************************************************)
(* The Discord bot (discord_bot.py): the scheduled scan and the !scan      *)
(* command, coroutines of one event loop, and data/posted_jobs.json.       *)
(***************************************************************************)

\* bound of the model: the scans started
MaxScans == 3

\* a scraped job, by its url
URL_1 == "https://careers.example/1"
URL_2 == "https://careers.example/2"
\* what scrape_all_sites may return
Scrapes == {<<>>, <<URL_1>>, <<URL_1, URL_2>>, <<URL_2, URL_1>>}

HANDLERS == {"scrape_and_post", "on_message"}

HandlerIdle == [pc |-> "idle", posted |-> {}, new_jobs |-> <<>>, i |-> 0]

\* bot.posted_file: the urls in data/posted_jobs.json; bot.channel: the urls
\* of the embeds sent to the channel, in order; bot.h: the two handlers
InitBot ==
  /\ IngestOff
  /\ wd = OFF /\ ut = OFF /\ two = OFF
  /\ bot = [pc |-> "on", posted_file |-> {}, channel |-> <<>>, scans |-> 0,
            h |-> [n \in HANDLERS |-> HandlerIdle]]

bot_frame == <<ingest_vars, wd, ut, two>>

\* scrape_and_post is started by the loop (line 215), on_message by a !scan
\* message (line 296): the handler awaits scrape_all_sites in the executor
StartScan(n) ==
  /\ bot.pc = "on"
  /\ bot.h[n].pc = "idle"
  /\ bot.scans < MaxScans
  /\ bot' = [bot EXCEPT !.scans = @ + 1, !.h[n].pc = "scraping"]
  /\ UNCHANGED bot_frame

\* lines 224-252 (298-322): the executor returns jobs; no jobs, or none that
\* is new, ends the handler; else the handler keeps the set it loaded and the
\* new jobs, and awaits the send of the headline
Scraped(n, jobs) ==
  /\ bot.pc = "on"
  /\ bot.h[n].pc = "scraping"
  /\ LET posted == bot.posted_file
         fresh == SelectSeq(jobs, LAMBDA u : u \notin posted)
     IN  IF fresh = <<>>
         THEN bot' = [bot EXCEPT !.h[n] = HandlerIdle]
         ELSE bot' = [bot EXCEPT !.h[n] = [pc |-> "headline", posted |-> posted,
                                           new_jobs |-> fresh, i |-> 1]]
  /\ UNCHANGED bot_frame

\* lines 248-252: the headline is sent
HeadlineSent(n) ==
  /\ bot.pc = "on"
  /\ bot.h[n].pc = "headline"
  /\ bot' = [bot EXCEPT !.h[n].pc = "embed"]
  /\ UNCHANGED bot_frame

\* lines 255-258 (324-327): the embed of job i is sent, its url added to the
\* local set; the handler sleeps
EmbedSent(n) ==
  /\ bot.pc = "on"
  /\ bot.h[n].pc = "embed"
  /\ LET u == bot.h[n].new_jobs[bot.h[n].i]
     IN  bot' = [bot EXCEPT !.channel = Append(@, u),
                            !.h[n].posted = @ \cup {u},
                            !.h[n].pc = "sleep"]
  /\ UNCHANGED bot_frame

\* channel.send raises (HTTPException, the connection is lost): the
\* exception leaves the handler, save_posted_jobs is not reached
SendFails(n) ==
  /\ bot.pc = "on"
  /\ bot.h[n].pc \in {"headline", "embed"}
  /\ bot' = [bot EXCEPT !.h[n] = HandlerIdle]
  /\ UNCHANGED bot_frame

\* lines 258-260 (327-328): the sleep is over; the next embed, or after the
\* last one save_posted_jobs(posted) writes the local set to the file
SleepOver(n) ==
  /\ bot.pc = "on"
  /\ bot.h[n].pc = "sleep"
  /\ IF bot.h[n].i < Len(bot.h[n].new_jobs)
     THEN bot' = [bot EXCEPT !.h[n].i = @ + 1, !.h[n].pc = "embed"]
     ELSE bot' = [bot EXCEPT !.posted_file = bot.h[n].posted, !.h[n] = HandlerIdle]
  /\ UNCHANGED bot_frame

NextBot ==
  \/ \E n \in HANDLERS : StartScan(n)
  \/ \E n \in HANDLERS, jobs \in Scrapes : Scraped(n, jobs)
  \/ \E n \in HANDLERS : HeadlineSent(n)
  \/ \E n \in HANDLERS : EmbedSent(n)
  \/ \E n \in HANDLERS : SendFails(n)
  \/ \E n \in HANDLERS : SleepOver(n)

SpecBot == InitBot /\ [][NextBot]_vars

(***************************************************************************)
(* Two cycles on one job database (parallel_ingestor.py): in two           *)
(* processes, or as two coroutines of one event loop.                      *)
(***************************************************************************)
CYCLES == {1, 2}
Other(p) == 3 - p

\* what the sources of a cycle return
TwoBatches == {<<J_A>>, <<J_B>>, <<J_A, J_B, J_C>>}

CycleFetching ==
  [pc |-> "fetching", all_jobs |-> <<>>, recent |-> <<>>, known |-> {}, new_jobs |-> <<>>,
   db |-> EmptyDb]

\* two.mode: "processes" or "loop"; two.file: data/jobs.json; two.c: the two
\* cycles; two.now: the clock; history: two.at_start, the keys the database
\* held before the cycles; two.race, how the loads and saves of the two
\* cycles fell ("none": one after the other, "overlap": both loaded before
\* either saved, "torn": one loaded while the other was writing);
\* two.last_writer, the cycle whose write ended last
InitTwo ==
  /\ IngestOff
  /\ wd = OFF /\ ut = OFF /\ bot = OFF
  /\ \E m \in {"processes", "loop"}, f \in InitialFiles :
       two = [pc |-> "on", mode |-> m, file |-> f, now |-> CLOCK0,
              c |-> [p \in CYCLES |-> CycleFetching],
              at_start |-> DOMAIN load_known_jobs(f).jobs,
              race |-> "none", last_writer |-> 0]

two_frame == <<ingest_vars, wd, ut, bot>>

\* run_cycle, lines 237-277: the fetches of cycle p are over
TwoFetched(p, batch) ==
  /\ two.pc = "on"
  /\ two.c[p].pc = "fetching"
  /\ two' = [two EXCEPT !.c[p].pc = "filter", !.c[p].all_jobs = batch]
  /\ UNCHANGED two_frame

\* run_cycle, lines 279-329, on the file as it is: the filters, the load, the
\* dedup and the update of the loaded database
cycle_update(file, all, ts) ==
  LET f == role_filter_stage(all)
      u == us_filter_stage(f)
      r == window_filter_stage(u, 24, ts)
      loaded == load_known_jobs(file)
      fresh == dedup_jobs(r, DOMAIN loaded.jobs)
      run_entry == [timestamp |-> ts, fetched |-> Len(all), filtered |-> Len(f),
                    new |-> Len(fresh), succeeded |-> 1, failed |-> 0]
  IN  [recent |-> r,
       known |-> DOMAIN loaded.jobs,
       new_jobs |-> [i \in 1..Len(fresh) |-> [fresh[i] EXCEPT !.first_seen = ts]],
       db |-> [jobs |-> store_new_jobs(loaded.jobs, fresh, ts),
               run_history |-> append_history(loaded.run_history, run_entry),
               last_updated |-> ts]]

\* cycle p with the results of cycle_update
Updated(p, upd) ==
  [two.c[p] EXCEPT !.recent = upd.recent, !.known = upd.known,
                   !.new_jobs = upd.new_jobs, !.db = upd.db]

\* how the load of cycle p falls with respect to the other cycle
RaceAtLoad(p) ==
  IF two.c[Other(p)].pc = "save" THEN "overlap"
  ELSE IF two.c[Other(p)].pc = "writing" /\ two.race = "none" THEN "torn"
  ELSE two.race

\* a process runs lines 279-329; the other process may run before
\* save_jobs_db (line 331)
TwoLoad(p) ==
  /\ two.pc = "on"
  /\ two.mode = "processes"
  /\ two.c[p].pc = "filter"
  /\ two' = [two EXCEPT !.c[p] = [Updated(p, cycle_update(two.file, two.c[p].all_jobs, two.now))
                                    EXCEPT !.pc = "save"],
                        !.race = RaceAtLoad(p),
                        !.now = @ + 1]
  /\ UNCHANGED two_frame

\* save_jobs_db, line 94: write_text opens the file, which truncates it
TwoSaveOpen(p) ==
  /\ two.pc = "on"
  /\ two.c[p].pc = "save"
  /\ two' = [two EXCEPT !.c[p].pc = "writing", !.file = PARTIAL]
  /\ UNCHANGED two_frame

\* TwoSaveWrite writing its new jobs on top of what the first writer stored
TwoSaveWrite_merging(p) ==
  /\ two.pc = "on"
  /\ two.c[p].pc = "writing"
  /\ two' = [two EXCEPT !.c[p].pc = "returned",
                        !.file = IF two.last_writer = 0 THEN ValidFile(two.c[p].db)
                                 ELSE ValidFile([two.c[p].db EXCEPT !.jobs =
                                        @ @@ two.c[two.last_writer].db.jobs]),
                        !.last_writer = p]
  /\ UNCHANGED two_frame

\* save_jobs_db, line 94, and lines 333-346: the text is written and the
\* file closed; the cycle returns
TwoSaveWrite(p) ==
  /\ two.pc = "on"
  /\ two.c[p].pc = "writing"
  /\ two' = [two EXCEPT !.c[p].pc = "returned", !.file = ValidFile(two.c[p].db),
                        !.last_writer = p]
  /\ UNCHANGED two_frame

\* save_jobs_db, line 94: the write fails after the file was opened;
\* run_cycle raises
TwoSaveFail(p) ==
  /\ two.pc = "on"
  /\ two.c[p].pc = "writing"
  /\ two' = [two EXCEPT !.c[p].pc = "failed"]
  /\ UNCHANGED two_frame

\* TwoLoadSave giving way to the other coroutine before save_jobs_db
TwoLoadSave_suspending(p, written) ==
  /\ two.pc = "on"
  /\ two.mode = "loop"
  /\ two.c[p].pc = "filter"
  /\ two' = [two EXCEPT !.c[p] = [Updated(p, cycle_update(two.file, two.c[p].all_jobs, two.now))
                                    EXCEPT !.pc = "save"],
                        !.race = RaceAtLoad(p),
                        !.now = @ + 1]
  /\ UNCHANGED two_frame

\* a coroutine runs lines 279-346: there is no await from the end of the
\* fetches to the return, so the other coroutine of the loop does not run
\* in between; written tells whether write_text writes the text in full
TwoLoadSave(p, written) ==
  /\ two.pc = "on"
  /\ two.mode = "loop"
  /\ two.c[p].pc = "filter"
  /\ two' = [two EXCEPT !.c[p] = [Updated(p, cycle_update(two.file, two.c[p].all_jobs, two.now))
                                    EXCEPT !.pc = IF written THEN "returned" ELSE "failed"],
                        !.file = IF written
                                 THEN ValidFile(cycle_update(two.file, two.c[p].all_jobs, two.now).db)
                                 ELSE PARTIAL,
                        !.race = RaceAtLoad(p),
                        !.last_writer = IF written THEN p ELSE @,
                        !.now = @ + 1]
  /\ UNCHANGED two_frame

NextTwo ==
  \/ \E p \in CYCLES, b \in TwoBatches : TwoFetched(p, b)
  \/ \E p \in CYCLES : TwoLoad(p)
  \/ \E p \in CYCLES : TwoSaveOpen(p)
  \/ \E p \in CYCLES : TwoSaveWrite(p)
  \/ \E p \in CYCLES : TwoSaveFail(p)
  \/ \E p \in CYCLES, written \in BOOLEAN : TwoLoadSave(p, written)

SpecTwo == InitTwo /\ [][NextTwo]_vars

(***************************************************************************)
(* Cycles with a window wider than 24 hours over a Lever board.            *)
(***************************************************************************)
WIDE_WINDOW == 72

\* a posting created 30 hours ago
P_OLDER ==
  Posting(T_DATA_SCIENTIST, L_REMOTE, "u9", "9", IsoDate(CLOCK0 - 30 * TICKS_PER_HOUR),
          CLOCK0 - 30 * TICKS_PER_HOUR)

WIDE_PAYLOAD == <<P_ML, P_OLDER>>
WideResponses == {OkResponse(WIDE_PAYLOAD), HTTP_ERROR}
WIDE_REGISTRY == RegistryList(<<E_INITECH, E_BAD_WORKDAY>>)

InitWide ==
  /\ jobs_file \in InitialFiles
  /\ registry_file = WIDE_REGISTRY
  /\ clock = CLOCK0
  /\ cycles = 0
  /\ pc = "idle"
  /\ CycleIdle
  /\ first_stored = load_known_jobs(jobs_file).jobs
  /\ keys_at_start = {}
  /\ history_at_start = <<>>
  /\ side_exchange = NoExchange
  /\ call = NoCall /\ ret = NoResult
  /\ ComponentsOff

NextWide ==
  \/ \E w \in {24, WIDE_WINDOW} : StartCycle(w)
  \/ \E i \in 1..2 : TaskEnter(i)
  \/ \E i \in 1..2, resp \in WideResponses : TaskAttempt(i, resp)
  \/ \E i \in 1..2 : TaskWake(i)
  \/ Gather
  \/ \E x \in SideExchanges : FetchBoardsAndAggregators(x)
  \/ FilterDedupStore
  \/ SaveOpen
  \/ SaveWrite
  \/ SaveFail
  \/ EndCycle

SpecWide == InitWide /\ [][NextWide]_vars

(***************************************************************************)
(* Properties.                                                             *)
(***************************************************************************)

\* the keys a reader finds in the database file
StoredKeys == DOMAIN load_known_jobs(jobs_file).jobs

\* kw occurs in title as a substring, in any letter case
OccursAnyCase(title, kw) ==
  \E i \in 1..(Len(title) - Len(kw) + 1) :
    SubSeq(lower(title), i, i + Len(kw) - 1) = lower(kw)

\* the rows of the keyword table whose keyword occurs in title
KeywordsPresent(title) ==
  {n \in DOMAIN ROLE_KEYWORDS : OccursAnyCase(title, ROLE_KEYWORDS[n][1])}

\* a cycle with a non-empty registry has returned
CycleReturned == pc = "returned" /\ registry # <<>>

\* C1: once a cycle has deduplicated and stored its candidate list, running the
\* same list through dedup_jobs against the stored key set yields no new
\* record.
C1_DedupIdempotent ==
  CycleReturned => dedup_jobs(recent, StoredKeys) = <<>>

C1_Witness == CycleReturned /\ Len(new_jobs) >= 2 /\ Len(recent) > Len(new_jobs)

\* C2: first_seen is assigned once per dedup key: the record stored under a
\* key, first_seen included, stays the one that was first stored under it.
C2_FirstSeenAssignedOnce ==
  jobs_file.state = "valid" =>
    \A k \in DOMAIN jobs_file.db.jobs :
      k \in DOMAIN first_stored => jobs_file.db.jobs[k] = first_stored[k]

\* C3: at every point the database file is the complete previous or the
\* complete new database, never truncated or invalid.
C3_FileNeverPartial == jobs_file.state # "partial"

\* the registry sources whose every attempt met a transport failure
TransportFailed ==
  {i \in DOMAIN tasks :
     /\ tasks[i].seen # <<>>
     /\ \A n \in DOMAIN tasks[i].seen : tasks[i].seen[n] \in TransportFailures}

\* C4: a cycle in which N sources fail with a transport error on every attempt
\* returns the records of the other sources and reports companies_failed = N.
C4_FailedCountsTransportFailures ==
  CycleReturned =>
    /\ result.companies_failed = Cardinality(TransportFailed)
    /\ \A i \in DOMAIN tasks \ TransportFailed :
         ~tasks[i].out.raised =>
           \A n \in DOMAIN tasks[i].out.jobs :
             \E m \in DOMAIN all_jobs : all_jobs[m] = tasks[i].out.jobs[n]

\* C5: a transport failure of an attempt is followed by another attempt after
\* a backoff of RETRY_DELAY times the attempt number, up to MAX_RETRIES
\* retries; when the last attempt fails too, the task ends with an error for
\* its source.
C5_TransportFailureRetried ==
  \A i \in DOMAIN tasks :
    tasks[i].st = "done" =>
      \A n \in DOMAIN tasks[i].seen :
        tasks[i].seen[n] \in TransportFailures =>
          IF n <= MAX_RETRIES
          THEN Len(tasks[i].seen) > n /\ Len(tasks[i].slept) >= n
                 /\ tasks[i].slept[n] = RETRY_DELAY * n
          ELSE ~tasks[i].out.raised /\ tasks[i].out.error # ""

\* C6: two records whose title, company and location are each equal after
\* lower-casing and trimming have the same dedup key.
C6_KeyStablePerField ==
  (/\ call.fn = "dedup_key"
   /\ ret # NoResult
   /\ strip(lower(call.a.title)) = strip(lower(call.b.title))
   /\ strip(lower(call.a.company)) = strip(lower(call.b.company))
   /\ strip(lower(call.a.location)) = strip(lower(call.b.location)))
    => ret.value[1] = ret.value[2]

\* C7: the key set of the database after a cycle is a superset of the key set
\* before it.
C7_DatabaseOnlyGrows ==
  pc \in {"returned", "failed"} => keys_at_start \subseteq StoredKeys

\* the indices of new_jobs that dedup_jobs has to keep: first occurrence of a
\* key that is not known
FirstOccurrences(jobs, known) ==
  {i \in DOMAIN jobs :
     /\ dedup_key(jobs[i]) \notin known
     /\ \A j \in 1..(i - 1) : dedup_key(jobs[j]) # dedup_key(jobs[i])}

\* the n-th smallest element of a set of indices
NthIndex(S, n) == CHOOSE i \in S : Cardinality({j \in S : j < i}) = n - 1

\* C8: dedup_jobs returns, in input order, exactly the first occurrence of
\* each key that is not in known_keys.
C8_DedupJobsFirstOccurrences ==
  (call.fn = "dedup_jobs" /\ ret # NoResult) =>
    LET keep == FirstOccurrences(call.new_jobs, call.known_keys)
        out == ret.value
    IN  /\ Len(out) = Cardinality(keep)
        /\ \A n \in DOMAIN out : out[n] = call.new_jobs[NthIndex(keep, n)]
        /\ \A n \in DOMAIN out : dedup_key(out[n]) \notin call.known_keys
        /\ \A n, m \in DOMAIN out : n # m => dedup_key(out[n]) # dedup_key(out[m])

C8_Witness ==
  /\ call.fn = "dedup_jobs" /\ ret # NoResult
  /\ Len(ret.value) >= 1
  /\ \E i, j \in DOMAIN call.new_jobs :
       i < j /\ dedup_key(call.new_jobs[i]) = dedup_key(call.new_jobs[j])
         /\ call.new_jobs[i] # call.new_jobs[j]
         /\ dedup_key(call.new_jobs[i]) \notin call.known_keys
  /\ \E i \in DOMAIN call.new_jobs : dedup_key(call.new_jobs[i]) \in call.known_keys

\* the fetched records that pass the three filters of a cycle
Admitted ==
  {n \in DOMAIN all_jobs :
     /\ KeywordsPresent(all_jobs[n].title) # {}
     /\ is_us_location(all_jobs[n].location)
     /\ is_within_window(all_jobs[n].date_posted, window_hours, clock)}

\* C9: total_fetched counts the records returned by all sources,
\* total_filtered those whose title matches a role keyword, new_jobs holds one
\* record for each previously unknown key among the records that pass the
\* three filters, and total_new is its length.
C9_CycleCounts ==
  CycleReturned =>
    /\ result.total_fetched = Len(all_jobs)
    /\ \A i \in DOMAIN tasks :
         (~tasks[i].out.raised /\ tasks[i].out.error = "") =>
           \A n \in DOMAIN tasks[i].out.jobs :
             \E m \in DOMAIN all_jobs : all_jobs[m] = tasks[i].out.jobs[n]
    /\ result.total_filtered =
         Cardinality({n \in DOMAIN all_jobs : KeywordsPresent(all_jobs[n].title) # {}})
    /\ {dedup_key(result.new_jobs[n]) : n \in DOMAIN result.new_jobs}
         = {dedup_key(all_jobs[n]) : n \in Admitted} \ keys_at_start
    /\ \A n, m \in DOMAIN result.new_jobs :
         n # m => dedup_key(result.new_jobs[n]) # dedup_key(result.new_jobs[m])
    /\ \A n \in DOMAIN result.new_jobs :
         \E m \in Admitted :
           result.new_jobs[n] =
             [all_jobs[m] EXCEPT !.first_seen = clock,
                                 !.keywords_matched = result.new_jobs[n].keywords_matched]
    /\ result.total_new = Len(result.new_jobs)

\* a role-matched record outside the window is fetched and counted as
\* filtered, and is not new
C9_Witness ==
  /\ CycleReturned
  /\ result.total_new >= 1
  /\ result.total_filtered > result.total_new
  /\ \E n \in DOMAIN all_jobs :
       /\ KeywordsPresent(all_jobs[n].title) # {}
       /\ is_us_location(all_jobs[n].location)
       /\ ~is_within_window(all_jobs[n].date_posted, window_hours, clock)
       /\ dedup_key(all_jobs[n]) \notin StoredKeys

\* C10: a title that contains keywords of the table, in any letter case, gets
\* a non-empty set of categories with the category of every keyword present,
\* and its record passes the role filter; a title that contains none gets the
\* empty set and its record is dropped.
C10_RoleFilterTotal ==
  /\ (call.fn = "matches_target_role" /\ ret # NoResult) =>
       LET present == KeywordsPresent(call.title) IN
         /\ present # {} => ret.value # {}
         /\ \A n \in present : ROLE_KEYWORDS[n][2] \in ret.value
         /\ present = {} => ret.value = {}
  /\ (call.fn = "role_filter_stage" /\ ret # NoResult) =>
       LET present == KeywordsPresent(call.jobs[1].title) IN
         IF present = {} THEN ret.value = <<>>
         ELSE /\ Len(ret.value) = 1
              /\ ret.value[1].title = call.jobs[1].title
              /\ \A n \in present : ROLE_KEYWORDS[n][2] \in ret.value[1].keywords_matched

C10_Witness ==
  /\ call.fn = "matches_target_role" /\ ret # NoResult
  /\ call.title # lower(call.title)
  /\ Cardinality(ret.value) >= 3

\* C11: a location in which no exclude pattern occurs is accepted, whether or
\* not an include pattern or a state abbreviation is recognised in it.
C11_NoExcludeAccepted ==
  (/\ call.fn = "is_us_location"
   /\ ret # NoResult
   /\ \A e \in DOMAIN _EXCLUDE : ~OccursAnyCase(call.location, _EXCLUDE[e]))
    => ret.value = TRUE

\* a location with no include pattern, no state abbreviation and no
\* placeholder has been accepted
C11_Witness ==
  /\ call.fn = "is_us_location" /\ ret # NoResult /\ ret.value = TRUE
  /\ strip(lower(call.location)) \notin GENERIC_LOCATIONS
  /\ \A n \in DOMAIN _INCLUDE : ~OccursAnyCase(call.location, _INCLUDE[n])
  /\ \A e \in DOMAIN _EXCLUDE : ~OccursAnyCase(call.location, _EXCLUDE[e])
  /\ \A w \in two_letter_words(call.location) : lower(w) \notin _STATE_CODES

\* the phrase names no span of days, months or years
NoRelativeUnit(s) ==
  ~OccursAnyCase(s, DAY) /\ ~OccursAnyCase(s, MONTH) /\ ~OccursAnyCase(s, YEAR)

\* C12: an absolute date (ISO variant or Unix timestamp) is within the window
\* iff it is at or after now minus the window, the cutoff itself included; a
\* date that cannot be parsed is within the window.
C12_RecencyBoundary ==
  (call.fn = "is_within_window" /\ ret # NoResult) =>
    LET d == call.date_str
        cutoff == clock - call.window_hours * TICKS_PER_HOUR
    IN  /\ d.kind \in {"iso", "num"} => (ret.value <=> d.at >= cutoff)
        /\ (d.kind = "text" /\ NoRelativeUnit(d.s)) => ret.value = TRUE

\* a date exactly at the cutoff has been included
C12_Witness ==
  /\ call.fn = "is_within_window" /\ ret # NoResult
  /\ call.date_str.kind = "iso"
  /\ ret.value = TRUE
  /\ call.date_str.at = clock - call.window_hours * TICKS_PER_HOUR

\* the registry file gives run_cycle no entry to fetch: it is absent,
\* unreadable, not JSON, JSON of another shape than a list of entries, or an
\* empty list
RegistryUnusable ==
  \/ registry_file.state \in {"absent", "unreadable", "not_utf8", "invalid_json", "scalar"}
  \/ registry_file.state = "object" /\ ~registry_file.has_companies
  \/ registry_file.state = "list" /\ registry_file.data = <<>>

\* C13: whatever is wrong with the registry file, run_cycle returns a result
\* with no new job, all counts zero and a non-empty list of errors; it does
\* not raise.
C13_ConfigErrorsNeverRaise ==
  (pc \in {"returned", "raised"} /\ RegistryUnusable) =>
    /\ result.kind = "result"
    /\ result.new_jobs = <<>>
    /\ result.total_fetched = 0 /\ result.total_filtered = 0 /\ result.total_new = 0
    /\ result.companies_succeeded = 0 /\ result.companies_failed = 0
    /\ result.errors # <<>>

\* C14: no cycle is aborted by what a source returns or raises: an exception
\* leaves run_cycle only when the configuration cannot be loaded (a failure
\* of the write of the database ends the cycle in the state "failed").
C14_SourceNeverAbortsCycle ==
  pc = "raised" => result.stage = "registry"

\* C16: the job boards and the aggregators are issued together with the
\* registry fetches and share their pool: when they are issued, the registry
\* fetches have not all finished and given their permits back.
C16_SideAdaptersShareThePool ==
  pc = "boards" =>
    /\ \E i \in DOMAIN tasks : tasks[i].st # "done"
    /\ permits < MAX_CONCURRENT

\* the cycle has left the fetch stage
FetchesOver == pc \in {"filter", "save", "writing", "returned", "failed", "raised"}

\* the cycle has left the filter stages
FiltersOver == pc \in {"save", "writing", "returned", "failed"}

\* C17: the stages of a cycle follow one another: the role filter runs when
\* every fetch has finished, the geography filter on the output of the role
\* filter, the recency filter on the output of the geography filter, and the
\* database is read and written after the recency filter.
C17_StagesSequential ==
  registry # <<>> =>
    /\ (pc = "boards" \/ FetchesOver) =>
         /\ \A i \in DOMAIN tasks : tasks[i].st = "done"
         /\ permits = MAX_CONCURRENT
    /\ ~FiltersOver =>
         /\ filtered = <<>> /\ us_jobs = <<>> /\ recent = <<>>
         /\ known_keys = {} /\ new_jobs = <<>> /\ db = EmptyDb
    /\ pc \in {"fetch", "boards", "filter", "save"} =>
         /\ DOMAIN load_known_jobs(jobs_file).jobs = keys_at_start
         /\ load_known_jobs(jobs_file).run_history = history_at_start
    /\ FiltersOver =>
         /\ \A n \in DOMAIN filtered : \E m \in DOMAIN all_jobs :
              filtered[n] =
                [all_jobs[m] EXCEPT !.keywords_matched = filtered[n].keywords_matched]
         /\ us_jobs = SelectSeq(filtered, LAMBDA j : is_us_location(j.location))
         /\ recent = SelectSeq(us_jobs,
                                LAMBDA j : is_within_window(j.date_posted, window_hours, clock))
         /\ known_keys = keys_at_start
         /\ new_jobs = [i \in 1..Len(dedup_jobs(recent, known_keys)) |->
                          [dedup_jobs(recent, known_keys)[i] EXCEPT !.first_seen = clock]]

\* every stage has dropped a record, and the cycle is about to write
C17_Witness ==
  /\ pc = "save" /\ registry # <<>>
  /\ Len(all_jobs) > Len(filtered) /\ Len(filtered) > Len(us_jobs)
  /\ Len(us_jobs) > Len(recent) /\ Len(recent) > Len(new_jobs) /\ Len(new_jobs) >= 1

C20_StoredRecordsHaveCategories ==
  (FiltersOver /\ registry # <<>>) =>
    /\ \A n \in DOMAIN filtered : filtered[n].keywords_matched # {}
    /\ \A n \in DOMAIN new_jobs : new_jobs[n].keywords_matched # {}
    /\ \A k \in DOMAIN db.jobs : db.jobs[k].keywords_matched # {}
    /\ pc = "returned" =>
         /\ \A n \in DOMAIN result.new_jobs : result.new_jobs[n].keywords_matched # {}
         /\ \A k \in StoredKeys :
              load_known_jobs(jobs_file).jobs[k].keywords_matched # {}

\* a cycle that fetched a record of no category has stored a new record
C20_Witness ==
  /\ CycleReturned
  /\ Len(result.new_jobs) >= 1
  /\ \E n \in DOMAIN all_jobs : matches_target_role(all_jobs[n].title) = {}

\* the adapter invocations in flight: the registry tasks inside the semaphore
\* whose fetch is awaited, and the board or aggregator adapter that runs
\* while the cycle is at lines 259-275
Holding == {i \in DOMAIN tasks : tasks[i].st \in {"running", "sleeping"}}
InFlight ==
  Cardinality({i \in DOMAIN tasks : tasks[i].st = "running"})
    + (IF pc = "boards" THEN 1 ELSE 0)

\* C15: at every moment of a cycle at most MAX_CONCURRENT (25) adapter
\* invocations are in flight, whatever the size of the registry: the tasks
\* inside the semaphore are never more than 25 and the semaphore never goes
\* below zero
C15_BoundedConcurrency ==
  /\ InFlight <= MAX_CONCURRENT
  /\ Cardinality(Holding) <= MAX_CONCURRENT
  /\ permits = MAX_CONCURRENT - Cardinality(Holding)

\* 25 invocations are in flight and one more task waits for the semaphore
C15_Witness ==
  /\ pc = "fetch"
  /\ InFlight = MAX_CONCURRENT
  /\ \E i \in DOMAIN tasks : tasks[i].st = "pending"

\* C19: after every completed cycle with a non-empty registry the run
\* history has gained exactly one entry, this cycle's, as its last element;
\* its length is min(previous length + 1, 200); the entries kept are the most
\* recent ones of the previous history in their order; last_updated is the
\* timestamp of the new entry
C19_RunHistoryRing ==
  (pc = "returned" /\ registry # <<>>) =>
    LET prev == history_at_start
        stored == load_known_jobs(jobs_file)
        h == stored.run_history
        n == IF Len(prev) + 1 < HISTORY_CAP THEN Len(prev) + 1 ELSE HISTORY_CAP
    IN  /\ Len(h) = n
        /\ h[n] = [timestamp |-> clock, fetched |-> result.total_fetched,
                   filtered |-> result.total_filtered, new |-> result.total_new,
                   succeeded |-> result.companies_succeeded,
                   failed |-> result.companies_failed]
        /\ \A k \in 1..(n - 1) : h[k] = prev[Len(prev) - (n - 1) + k]
        /\ stored.last_updated = h[n].timestamp

\* a cycle has completed on a history that was at its cap: the oldest entry
\* is gone
C19_Witness ==
  /\ pc = "returned" /\ registry # <<>>
  /\ Len(history_at_start) = HISTORY_CAP
  /\ Len(jobs_file.db.run_history) = HISTORY_CAP
  /\ jobs_file.db.run_history[1] = history_at_start[2]

\* C24: the errors list that run_cycle returns has at most ERRORS_CAP (20)
\* entries and is the prefix, in the order of collection, of the errors
\* collected during the cycle
C24_ErrorsCapped ==
  (pc = "returned" /\ registry # <<>>) =>
    /\ Len(result.errors) <= ERRORS_CAP
    /\ Len(result.errors) <= Len(errors)
    /\ \A n \in 1..Len(result.errors) : result.errors[n] = errors[n]
    /\ Len(errors) <= ERRORS_CAP => Len(result.errors) = Len(errors)
    /\ Len(errors) > ERRORS_CAP => Len(result.errors) = ERRORS_CAP

\* a cycle has returned in which more than ERRORS_CAP sources failed
C24_Witness ==
  /\ pc = "returned" /\ registry # <<>>
  /\ Len(errors) > ERRORS_CAP
  /\ Len(result.errors) = ERRORS_CAP

\* line n of the document is a row of a table
IsTableRow(lines, n) == strip(lines[n]) # <<>> /\ strip(lines[n])[1] = "|"
IsSeparatorRow(lines, n) == IsTableRow(lines, n) /\ is_separator(row_cells(strip(lines[n])))
\* a row one of whose cells names a column
NamesColumn(lines, n) ==
  /\ IsTableRow(lines, n) /\ ~IsSeparatorRow(lines, n)
  /\ \E i \in DOMAIN row_cells(strip(lines[n])) :
       column_of(lower(row_cells(strip(lines[n]))[i]), 1) # ""
\* row h is the header row of the contiguous table that row n is in: the
\* first row of the table that names a column
HeaderRowOf(lines, h, n) ==
  /\ h <= n
  /\ \A m \in h..n : IsTableRow(lines, m)
  /\ NamesColumn(lines, h)
  /\ \A m \in 1..(h - 1) :
       (\A k \in m..h : IsTableRow(lines, k)) => ~NamesColumn(lines, m)

\* C23: the markdown-table parser emits no record for a header row, a
\* separator row or a data row marked closed ("~~" or the lock glyph); every
\* record it emits comes from an open data row that follows a recognised
\* header row in the same contiguous table (each row gives at most one record,
\* in the order of the rows)
C23_MarkdownRowsEmitted ==
  (call.fn = "_parse_markdown_table" /\ ret # NoResult /\ ~ret.value.raised) =>
    LET lines == call.lines
        v == ret.value
    IN  /\ Len(v.rows) = Len(v.jobs)
        /\ \A k \in DOMAIN v.rows :
             LET n == v.rows[k] IN
             /\ n \in DOMAIN lines
             /\ k > 1 => v.rows[k - 1] < n
             /\ IsTableRow(lines, n)
             /\ ~IsSeparatorRow(lines, n)
             /\ ~marked_closed(lines[n])
             /\ \E h \in 1..(n - 1) : HeaderRowOf(lines, h, n)

\* a table with a header, a separator, a closed row and an open row: one
\* record, made from the open row
C23_Witness ==
  /\ call.fn = "_parse_markdown_table" /\ ret # NoResult
  /\ call.lines = <<MD_HEADER, MD_SEPARATOR, MD_ROW_STRUCK, MD_ROW_ACME>>
  /\ ~ret.value.raised
  /\ ret.value.rows = <<4>>
  /\ ret.value.jobs[1].title = T_ML_ENGINEER
  /\ ret.value.jobs[1].company = C_ACME

\* a data row lacks the cell of the company column: the parser raises
C23_RaisesOnShortRow ==
  /\ call.fn = "_parse_markdown_table" /\ ret # NoResult
  /\ call.lines = <<MD_HEADER_WIDE, MD_ROW_SHORT>>
  /\ ret.value.raised

\* job is one of the records of the candidate list
Fetched(job) == \E n \in DOMAIN all_jobs : all_jobs[n] = job
Elements(jobs) == {jobs[n] : n \in DOMAIN jobs}

\* C21: in every cycle with a non-empty registry every source family
\* contributes to the candidate list: the records of the registry entries, of
\* the job boards, of the aggregators and of the community repositories are
\* all in the list that total_fetched counts
C21_EveryFamilyContributes ==
  (pc \in {"filter", "save", "writing", "returned"} /\ registry # <<>>) =>
    /\ \A i \in DOMAIN tasks :
         (~tasks[i].out.raised /\ tasks[i].out.error = "") =>
           \A job \in Elements(tasks[i].out.jobs) : Fetched(job)
    /\ \A job \in Elements(fetch_all_job_boards(side_exchange.boards).jobs) : Fetched(job)
    /\ \A job \in Elements(fetch_all_aggregators(side_exchange.aggregators).jobs) : Fetched(job)
    /\ \A job \in Elements(fetch_all_github_repos(side_exchange.github).jobs) : Fetched(job)

\* C22: whatever the upstream answers (any reported total, any page contents),
\* WorkdayAdapter.fetch posts at most MAX_PAGES (10) page requests in one
\* call, and then returns
C22_PaginationCapped == [](wd.requests <= MAX_PAGES) /\ <>(wd.pc = "returned")

\* fetch has returned after ten requests, each answered with a full page
C22_Witness ==
  /\ wd.pc = "returned"
  /\ wd.requests = MAX_PAGES
  /\ wd.out = MAX_PAGES * PAGE_LIMIT

\* a call of _atomic_write is going on or has ended, on a target that existed
Writing == ut.pc \in {"write", "closed", "rename", "done", "raised", "crashed"}

\* C25: _atomic_write never corrupts or loses an existing target: at every
\* point of the call, a crash or a failure at any step included, the target
\* holds the complete previous content or the complete new content
C25_AtomicWriteKeepsTarget ==
  (Writing /\ ut.op.prev.state = "valid") =>
    \/ ut.files[ut.op.path] = ut.op.prev
    \/ ut.files[ut.op.path] = FileWith(ut.op.content)

\* C27: after any sequence of store_jobs calls no two jobs of the stored list
\* have the same job key
C27_StoredKeysDistinct ==
  ut.pc # "off" =>
    LET jobs == load_stored_jobs(ut.files[JOBS_PATH]).jobs
    IN  \A i, k \in DOMAIN jobs : i # k => _get_job_key(jobs[i]) # _get_job_key(jobs[k])

\* C28: after update_checkpoint(updates) the stored checkpoint holds every
\* field of the previously stored checkpoint that updates does not name, with
\* its previous value, and every field of updates with the new value,
\* last_updated being the current time
C28_CheckpointMerged ==
  (ut.pc = "done" /\ ut.op.fn = "update_checkpoint") =>
    LET previous == load_checkpoint(ut.op.prev)
        updates == ut.op.arg
        file == ut.files[CHECKPOINT_PATH]
    IN  /\ file.state = "valid"
        /\ DOMAIN file.content = DOMAIN previous \cup DOMAIN updates \cup {"last_updated"}
        /\ \A f \in DOMAIN previous \ (DOMAIN updates \cup {"last_updated"}) :
             file.content[f] = previous[f]
        /\ \A f \in DOMAIN updates \ {"last_updated"} : file.content[f] = updates[f]
        /\ file.content["last_updated"] = ut.now

\* an update has kept a field of the previous checkpoint and replaced another
C28_Witness ==
  /\ ut.pc = "done" /\ ut.op.fn = "update_checkpoint"
  /\ ut.op.prev = FileWith(CP_EARLIER)
  /\ ut.op.arg = ("status" :> "running")
  /\ ut.files[CHECKPOINT_PATH].content["next_session"] = "scrape"
  /\ ut.files[CHECKPOINT_PATH].content["status"] = "running"

\* C26: across any interleaving of scheduled scans and !scan commands, and
\* across scans in which sending a message fails part-way through a batch, a
\* job that has been posted to the channel is never posted again
C26_NoDuplicatePosts ==
  bot.pc = "on" =>
    \A a, b \in DOMAIN bot.channel : a # b => bot.channel[a] # bot.channel[b]

BothReturned == two.pc = "on" /\ \A p \in CYCLES : two.c[p].pc = "returned"
NewKeys(p) == {dedup_key(two.c[p].new_jobs[i]) : i \in DOMAIN two.c[p].new_jobs}
RecentKeys(p) == {dedup_key(two.c[p].recent[i]) : i \in DOMAIN two.c[p].recent}
FileKeys == DOMAIN load_known_jobs(two.file).jobs

\* C29: cycles that overlap in separate processes race on the job database:
\* when both load the database before either saves, the later save overwrites
\* the earlier one, so a job stored by the earlier cycle only is absent from
\* the final database and a job fetched by both cycles is returned as new by
\* both; when the cycles follow one another neither happens
C29_OverlappingCyclesRace ==
  (BothReturned /\ two.mode = "processes") =>
    /\ two.race = "overlap" =>
         LET later == two.last_writer
             earlier == Other(two.last_writer)
         IN  /\ two.file = ValidFile(two.c[later].db)
             /\ \A k \in NewKeys(earlier) \ NewKeys(later) : k \notin FileKeys
             /\ \A k \in (RecentKeys(1) \cap RecentKeys(2)) \ two.at_start :
                  k \in NewKeys(1) /\ k \in NewKeys(2)
    /\ two.race = "none" =>
         /\ \A p \in CYCLES : NewKeys(p) \subseteq FileKeys
         /\ NewKeys(1) \cap NewKeys(2) = {}

\* two processes have loaded before either saved; the job that the earlier
\* one stored is gone and the job both fetched is new to both
C29_Witness ==
  /\ BothReturned /\ two.mode = "processes" /\ two.race = "overlap"
  /\ \E k \in NewKeys(Other(two.last_writer)) : k \notin FileKeys
  /\ NewKeys(1) \cap NewKeys(2) # {}

\* C30: within one event loop the read-modify-write of the job database (from
\* load_known_jobs to save_jobs_db) has no suspension point: of two run_cycle
\* coroutines on one loop, one loads after the other has saved or before the
\* other loads and saves, so no stored job is lost and no job is returned as
\* new by both
C30_OneLoopNoRace ==
  (two.pc = "on" /\ two.mode = "loop") =>
    /\ two.race = "none"
    /\ \A p \in CYCLES : two.c[p].pc \notin {"save", "writing"}
    /\ BothReturned =>
         /\ two.at_start \subseteq FileKeys
         /\ \A p \in CYCLES : NewKeys(p) \subseteq FileKeys
         /\ NewKeys(1) \cap NewKeys(2) = {}

\* two coroutines of one loop have fetched the same job; the first to load
\* stored it and the second found it known
C30_Witness ==
  /\ BothReturned /\ two.mode = "loop"
  /\ two.c[1].all_jobs = <<J_A>> /\ two.c[2].all_jobs = <<J_A>>
  /\ \E p \in CYCLES : NewKeys(p) # {} /\ NewKeys(Other(p)) = {}

CycleEnded == pc \in {"returned", "failed", "raised"}
AllTasksDone == \A i \in DOMAIN tasks : tasks[i].st = "done"

\* C31: every cycle comes to its end when every adapter call returns or
\* raises: whatever the size of the registry (26 entries here, one more than
\* the semaphore admits) every fetch task enters the semaphore, makes at
\* most MAX_RETRIES + 1 = 3 attempts and finishes, so the fan-out completes;
\* run_cycle then returns (or is left by the exception of a later stage)
C31_EveryCycleEnds ==
  /\ [](\A i \in DOMAIN tasks :
          tasks[i].attempt <= MAX_RETRIES /\ Len(tasks[i].seen) <= MAX_RETRIES + 1)
  /\ (pc = "fetch") ~> (pc = "boards" /\ AllTasksDone)
  /\ (pc # "idle") ~> CycleEnded

\* a cycle over 26 entries has returned; one task went through all three
\* attempts and the last task had to wait for a permit
C31_Witness ==
  /\ pc = "returned"
  /\ Len(tasks) > MAX_CONCURRENT
  /\ AllTasksDone
  /\ \E i \in DOMAIN tasks : Len(tasks[i].seen) = MAX_RETRIES + 1
  /\ Len(tasks[Len(tasks)].seen) >= 1

\* C32: a registry fetch task holds one permit of the semaphore from its
\* first attempt to its outcome, the sleeps between the attempts included,
\* and gives it back on every way out: the permits taken are those of the
\* tasks that fetch or sleep, never more than 25, and all 25 permits are free
\* once every task is done
C32_PermitHeldUntilOutcome ==
  /\ permits + Cardinality(Holding) = MAX_CONCURRENT
  /\ permits >= 0
  /\ AllTasksDone => permits = MAX_CONCURRENT
  /\ pc \notin {"idle", "fetch"} => permits = MAX_CONCURRENT

\* a task sleeps between two attempts while the semaphore is exhausted and
\* another task waits
C32_Witness ==
  /\ pc = "fetch"
  /\ permits = 0
  /\ \E i \in DOMAIN tasks : tasks[i].st = "sleeping"
  /\ \E i \in DOMAIN tasks : tasks[i].st = "pending"

\* the fan-out of 26 tasks is over, by success, by exhausted retries and by
\* an exception, and every permit is back
C32_WitnessReleased ==
  /\ pc = "boards"
  /\ permits = MAX_CONCURRENT
  /\ \E i \in DOMAIN tasks : tasks[i].out.raised
  /\ \E i \in DOMAIN tasks : ~tasks[i].out.raised /\ tasks[i].out.error # ""
  /\ \E i \in DOMAIN tasks : ~tasks[i].out.raised /\ tasks[i].out.error = ""

\* C33: precedence in the geography filter: a location that, lower-cased and
\* stripped, is neither empty nor a placeholder ("unknown", "n/a", "various",
\* "multiple") and that contains an exclude pattern is rejected, whether or
\* not it also contains an include pattern or a US state abbreviation; an
\* empty or placeholder location is accepted, the exclude patterns not being
\* looked at
C33_ExcludeTakesPrecedence ==
  (call.fn = "is_us_location" /\ ret # NoResult) =>
    LET loc_lower == strip(lower(call.location)) IN
      /\ loc_lower \in GENERIC_LOCATIONS => ret.value = TRUE
      /\ (/\ loc_lower \notin GENERIC_LOCATIONS
          /\ \E e \in DOMAIN _EXCLUDE : OccursAnyCase(call.location, _EXCLUDE[e]))
           => ret.value = FALSE

\* "Remote - India" holds the include pattern "remote" and the exclude
\* pattern "india": rejected
C33_Witness ==
  /\ call.fn = "is_us_location" /\ ret # NoResult /\ ret.value = FALSE
  /\ \E n \in DOMAIN _INCLUDE : Len(_INCLUDE[n]) > 2 /\ OccursAnyCase(call.location, _INCLUDE[n])
  /\ \E e \in DOMAIN _EXCLUDE : OccursAnyCase(call.location, _EXCLUDE[e])

\* "London, OH" holds the exclude pattern "london" and the state
\* abbreviation OH: rejected
C33_WitnessStateCode ==
  /\ call.fn = "is_us_location" /\ ret # NoResult /\ ret.value = FALSE
  /\ \E w \in two_letter_words(call.location) : lower(w) \in _STATE_CODES
  /\ \E e \in DOMAIN _EXCLUDE : OccursAnyCase(call.location, _EXCLUDE[e])

\* the numbers N that phrase s gives as "<N> day" or "<N>+ day", in any
\* letter case, with any white space before "day"
DayCounts(s) ==
  LET ls == lower(s) IN
    {to_int(SubSeq(ls, ij[1], ij[2])) : ij \in
       {x \in (1..Len(ls)) \X (1..Len(ls)) :
          /\ x[1] <= x[2]
          /\ \A k \in x[1]..x[2] : IsDigit(ls[k])
          /\ x[1] = 1 \/ ~IsDigit(ls[x[1] - 1])
          /\ \E p \in {x[2] + 1, x[2] + 2}, d \in 1..Len(ls) :
               /\ p = x[2] + 2 => (x[2] + 1 <= Len(ls) /\ ls[x[2] + 1] = "+")
               /\ d >= p /\ d + 2 <= Len(ls)
               /\ \A k \in p..(d - 1) : ls[k] \in WHITESPACE
               /\ SubSeq(ls, d, d + 2) = DAY}}

\* C34: for a date string that is neither an ISO variant nor a number, a
\* phrase with "month" or "year" in it is within the window iff the window is
\* of 720 hours or more (whatever it says of days); else a phrase "<N> day(s)"
\* or "<N>+ day(s)" is within the window iff N * 24 <= window_hours; any
\* other phrase ("3 hours ago", "today") is within the window
C34_RelativeDates ==
  (call.fn = "is_within_window" /\ ret # NoResult /\ call.date_str.kind = "text") =>
    LET s == call.date_str.s
        w == call.window_hours
    IN  IF OccursAnyCase(s, MONTH) \/ OccursAnyCase(s, YEAR)
        THEN ret.value <=> w >= 720
        ELSE /\ \A n \in DayCounts(s) : DayCounts(s) = {n} => (ret.value <=> n * 24 <= w)
             /\ DayCounts(s) = {} => ret.value = TRUE

\* "30+ Days Ago" is within a window of 720 hours
C34_Witness ==
  /\ call.fn = "is_within_window" /\ ret # NoResult
  /\ call.date_str.kind = "text"
  /\ ret.value = TRUE
  /\ DayCounts(call.date_str.s) = {30}
  /\ \E i \in DOMAIN call.date_str.s : call.date_str.s[i] = "+"
  /\ call.window_hours = 720

\* "1 month, 0 days" is outside a window of 24 hours: the month decides,
\* not the days
C34_WitnessMonth ==
  /\ call.fn = "is_within_window" /\ ret # NoResult
  /\ call.date_str.kind = "text"
  /\ ret.value = FALSE
  /\ OccursAnyCase(call.date_str.s, MONTH)
  /\ DayCounts(call.date_str.s) = {0}
  /\ call.window_hours = 24

\* the registry is missing, or holds no entry
RegistryEmpty ==
  \/ registry_file.state = "absent"
  \/ registry_file.state = "list" /\ registry_file.data = <<>>

\* C35: a cycle over a missing or empty registry changes nothing: run_cycle
\* returns in its first step without a fetch task, without a request to a
\* board or an aggregator, and the job database file stays as it is (no job
\* added, no run-history entry, last_updated untouched), up to the end of the
\* cycle
C35_EmptyRegistryNoOp ==
  [][/\ (pc = "idle" /\ pc' # "idle" /\ RegistryEmpty) =>
          /\ pc' = "returned"
          /\ result' = EmptyRegistryResult
          /\ tasks' = <<>> /\ all_jobs' = <<>>
          /\ side_exchange' = NoExchange
          /\ jobs_file' = jobs_file
     /\ (pc = "returned" /\ result = EmptyRegistryResult) =>
          /\ pc' = "idle"
          /\ jobs_file' = jobs_file]_vars

\* the cycle over an empty registry has returned and the database that the
\* earlier cycles left is in the file
C35_Witness ==
  /\ pc = "returned" /\ result = EmptyRegistryResult
  /\ RegistryEmpty
  /\ jobs_file = ValidFile(DB_EARLIER)
  /\ tasks = <<>> /\ side_exchange = NoExchange

\* the registry entries whose fetch task ended with an error or an exception
FailedEntries ==
  {i \in DOMAIN tasks : tasks[i].out.raised \/ tasks[i].out.error # ""}

\* C36: in a cycle over a non-empty registry, from the end of the fan-out
\* on, succeeded + failed is the number of registry entries: every entry is
\* counted once, as failed iff its fetch task ended with an error or an
\* exception; what the job boards and aggregators do changes neither count,
\* and the result of the cycle carries the two counts
C36_EveryEntryCountedOnce ==
  (pc \in {"boards", "filter", "save", "writing", "returned"} /\ registry # <<>>) =>
    /\ succeeded + failed = Len(registry)
    /\ failed = Cardinality(FailedEntries)
    /\ pc = "returned" =>
         /\ result.companies_succeeded = Len(registry) - Cardinality(FailedEntries)
         /\ result.companies_failed = Cardinality(FailedEntries)

\* a cycle has returned in which one task ended with an exception and one
\* with an error, and in which boards and aggregators timed out
C36_Witness ==
  /\ pc = "returned" /\ registry # <<>>
  /\ \E i \in DOMAIN tasks : tasks[i].out.raised
  /\ \E i \in DOMAIN tasks : ~tasks[i].out.raised /\ tasks[i].out.error # ""
  /\ side_exchange # NoExchange
  /\ \E n \in DOMAIN side_exchange.boards : side_exchange.boards[n] = TIMEOUT
  /\ result.companies_failed = 2

\* a cycle has returned in which every task succeeded
C36_WitnessSucceeded ==
  /\ pc = "returned" /\ registry # <<>>
  /\ FailedEntries = {}
  /\ result.companies_succeeded = Len(registry)
  /\ side_exchange # NoExchange
  /\ \E n \in DOMAIN side_exchange.boards : side_exchange.boards[n] = HTTP_ERROR

\* C37: the window given to run_cycle is the only recency criterion: a
\* posting of an upstream payload whose date lies within the last
\* window_hours hours is among the jobs fetched, so that no stage before the
\* recency filter drops it for its age; so for the Lever posting created 30
\* hours ago in a cycle with a window of 72 hours
C37_WindowIsOnlyRecencyCriterion ==
  (pc = "boards") =>
    \A i \in DOMAIN tasks :
      (/\ ~tasks[i].out.raised /\ tasks[i].out.error = ""
       /\ tasks[i].seen # <<>> /\ tasks[i].seen[Len(tasks[i].seen)] = "ok") =>
        \A n \in DOMAIN WIDE_PAYLOAD :
          WIDE_PAYLOAD[n].created_at >= clock - window_hours * TICKS_PER_HOUR =>
            \E k \in DOMAIN all_jobs :
              all_jobs[k].job_id = WIDE_PAYLOAD[n].id /\ all_jobs[k].company = registry[i].company

\* C38: is_within_window is total: for every date string and every window
\* it returns a boolean and raises nothing, numeric strings of any magnitude
\* included
C38_RecencyTotal ==
  (call.fn = "is_within_window" /\ ret # NoResult) =>
    (ret.kind = "value" /\ ret.value \in BOOLEAN)
====
